---- MODULE Spec2Model ----
(***************************************************************************)
(* A model of the kolide/updater TUF client (package tuf): the worker      *)
(* goroutine that serialises Update(), Download() and auto-update runs     *)
(* (client.go), the refresh state machine of repoMan (tuf.go), the         *)
(* target-tree builder and its two role fetchers (repo.go, remote_repo.go, *)
(* local_repo.go), the file integrity check (fim.go) and the save /        *)
(* backup / restore of the local repository (persistence.go).              *)
(*                                                                         *)
(* The Notary server, the mirror and the file system are the environment:  *)
(* every response they give is a nondeterministic input of the action      *)
(* that consumes it.                                                       *)
(***************************************************************************)
EXTENDS Integers, Sequences, FiniteSets, TLC

(***************************************************************************)
(* Bounds of the model.                                                    *)
(***************************************************************************)
NumCallers == 2
MaxCalls == 1
MaxVersion == 2
MaxTime == 1
MaxLen == 2
MaxRefreshes == 3
MaxSeqCalls == 2

(***************************************************************************)
(* Program constants.                                                      *)
(***************************************************************************)
maxDelegationCount == 50

(***************************************************************************)
(* Names.                                                                  *)
(***************************************************************************)
roleRoot == "root"
roleTimestamp == "timestamp"
roleSnapshot == "snapshot"
roleTargets == "targets"
FixedRoles == {roleRoot, roleTimestamp, roleSnapshot, roleTargets}
DelegateNames == {"targets/a", "targets/b"}
TargetNames == {roleTargets} \cup DelegateNames
FileNames == FixedRoles \cup DelegateNames
Times == 0..MaxTime
Versions == 1..MaxVersion

\* An optional value is a sequence of length at most one.
None == <<>>
Some(x) == <<x>>
IsSome(o) == o # <<>>
Get(o) == o[1]

(***************************************************************************)
(* verifySignatures: the signatures are tried in order; a signature whose  *)
(* key is not in keys is skipped, a verifier that cannot be built or that  *)
(* fails for another reason than a bad signature aborts, a bad signature   *)
(* is skipped, and the threshold-th good one succeeds.                     *)
(***************************************************************************)
\* A verification that finds every threshold met.
verifyNothing(keys, sigs, threshold) == "ok"

RECURSIVE verifyLoop(_, _, _, _, _)
verifyLoop(keys, sigs, threshold, i, verified) ==
    IF i > Len(sigs) THEN "errSignatureThresholdNotMet"
    ELSE IF sigs[i].keyid \notin keys
         THEN verifyLoop(keys, sigs, threshold, i + 1, verified)
    ELSE IF sigs[i].st = "unsupported" THEN "errVerifier"
    ELSE IF sigs[i].st = "bad"
         THEN verifyLoop(keys, sigs, threshold, i + 1, verified)
    ELSE IF verified + 1 = threshold THEN "ok"
    ELSE verifyLoop(keys, sigs, threshold, i + 1, verified + 1)

verifySignatures(keys, sigs, threshold) ==
    IF threshold <= 0 THEN "errThresholdZero"
    ELSE verifyLoop(keys, sigs, threshold, 1, 0)

SigKeyIDs(sigs) == {sigs[i].keyid : i \in DOMAIN sigs}

\* keymapForSignatures: the keys of the root that signed it.
keymapForSignatures(root) == SigKeyIDs(root.sigs) \cap root.keys

\* getKeys: the keys of the root named by the signatures of another role.
getKeys(root, sigs) == SigKeyIDs(sigs) \cap root.keys

(***************************************************************************)
(* File integrity metadata.  A digest is base64 text in the code; here the *)
(* digest of body b under algorithm a is the pair <<a, b>> (a hash without *)
(* collisions), and "notbase64" is a digest that does not decode.          *)
(***************************************************************************)
hashSHA256 == "sha256"
hashSHA512 == "sha512"
SupportedAlgos == {hashSHA256, hashSHA512}
Hash(algo, body) == <<algo, body>>
\* A digest that is not base64 text.
InvalidDigest == <<"notbase64", <<>>>>
\* A reader without a limit.
TakeAll(s, n) == s

\* io.LimitReader(s, n), read to its end.
Take(s, n) == IF n >= Len(s) THEN s ELSE SubSeq(s, 1, n)

\* A comparison that finds every two FIMs different.
FimNeverEqual(f, g) == FALSE

\* FileIntegrityMeta.Equal
FimEqual(f, g) ==
    /\ f.length = g.length
    /\ Cardinality(DOMAIN f.hashes) = Cardinality(DOMAIN g.hashes)
    /\ \A a \in DOMAIN f.hashes : a \in DOMAIN g.hashes /\ g.hashes[a] = f.hashes[a]

\* A verify that compares the length and no digest.
fimVerifyLengthOnly(fim, stream) ==
    IF Len(stream) # fim.length THEN "errLengthIncorrect" ELSE "ok"

\* A verify that compares the digests before the length.
fimVerifyDigestsFirst(fim, stream) ==
    IF \E a \in DOMAIN fim.hashes : fim.hashes[a] = InvalidDigest THEN "errInvalidHash"
    ELSE IF \E a \in DOMAIN fim.hashes : a \notin SupportedAlgos THEN "errUnsupportedHash"
    ELSE IF \E a \in DOMAIN fim.hashes : fim.hashes[a] # Hash(a, stream) THEN "errHashIncorrect"
    ELSE IF Len(stream) # fim.length THEN "errLengthIncorrect"
    ELSE "ok"

\* FileIntegrityMeta.verify on a reader that yields the bytes of stream.
\* The hashers are set up first (nothing is read if that fails), then the
\* whole stream is read, its length compared, and last the digests.
fimVerify(fim, stream) ==
    IF \E a \in DOMAIN fim.hashes : fim.hashes[a] = InvalidDigest THEN "errInvalidHash"
    ELSE IF \E a \in DOMAIN fim.hashes : a \notin SupportedAlgos THEN "errUnsupportedHash"
    ELSE IF Len(stream) # fim.length THEN "errLengthIncorrect"
    ELSE IF \E a \in DOMAIN fim.hashes : fim.hashes[a] # Hash(a, stream) THEN "errHashIncorrect"
    ELSE "ok"

\* What fimVerify reads from the stream (and a TeeReader copies on).
fimReads(fim, stream) ==
    IF \/ \E a \in DOMAIN fim.hashes : fim.hashes[a] = InvalidDigest
       \/ \E a \in DOMAIN fim.hashes : a \notin SupportedAlgos
    THEN <<>>
    ELSE stream

(***************************************************************************)
(* RootTarget.  lookup maps a role name to its Targets, prec is            *)
(* targetPrecedence (as role names) and paths maps a target path to the    *)
(* FIM of the first role that declared it.                                 *)
(***************************************************************************)
EmptyFn == [x \in {} |-> x]
FnPut(f, k, v) == [x \in DOMAIN f \cup {k} |-> IF x = k THEN v ELSE f[x]]
FnMerge(f, g) == [x \in DOMAIN f \cup DOMAIN g |-> IF x \in DOMAIN f THEN f[x] ELSE g[x]]

\* An append in which the role appended last owns the paths it declares.
rtAppendLastWins(rt, role, targ) ==
    [lookup |-> FnPut(rt.lookup, role, targ),
     prec   |-> Append(rt.prec, role),
     paths  |-> FnMerge(targ.targets, rt.paths)]

\* RootTarget.append
rtAppend(rt, role, targ) ==
    [lookup |-> FnPut(rt.lookup, role, targ),
     prec   |-> Append(rt.prec, role),
     paths  |-> FnMerge(rt.paths, targ.targets)]

EmptyRootTarget == [lookup |-> EmptyFn, prec |-> <<>>, paths |-> EmptyFn]

DelegNames(targ) == [i \in DOMAIN targ.delegs |-> targ.delegs[i].name]

(***************************************************************************)
(* targetTreeBuilder / getDelegatedTarget as a machine: the stack holds,   *)
(* for every loop over delegations that is under way, the names still to   *)
(* visit and the loop it is ("init": the fetch of targets, "top": the loop *)
(* of targetTreeBuilder, "nested": the loop of getDelegatedTarget).        *)
(***************************************************************************)
RECURSIVE PopDone(_)
PopDone(stack) ==
    IF stack = <<>> THEN stack
    ELSE IF Head(stack).kids = <<>> THEN PopDone(Tail(stack))
    ELSE stack

BuilderStart ==
    [rt |-> EmptyRootTarget,
     stack |-> <<[kids |-> <<roleTargets>>, level |-> "init"]>>,
     err |-> "ok"]

BuilderDone(b) == b.err # "ok" \/ b.stack = <<>>
BuilderNext(b) == Head(Head(b.stack).kids)

\* A traversal that visits the delegations of a role after the siblings of
\* the role.
BuilderStepSiblingsFirst(b, fr) ==
    LET frame == Head(b.stack)
        name  == Head(frame.kids)
        rest  == <<[frame EXCEPT !.kids = Tail(frame.kids)]>> \o Tail(b.stack)
    IN  IF fr.err = "ok"
        THEN [rt  |-> rtAppend(b.rt, name, fr.doc),
              stack |-> PopDone(rest \o
                                <<[kids  |-> DelegNames(fr.doc),
                                   level |-> IF frame.level = "init" THEN "top" ELSE "nested"]>>),
              err |-> "ok"]
        ELSE IF frame.level = "nested" /\ fr.err = "errTargetSeen"
        THEN [b EXCEPT !.stack = PopDone(rest)]
        ELSE [b EXCEPT !.err = fr.err]

\* One fetch result fr = [err, doc] for the role BuilderNext(b).
BuilderStep(b, fr) ==
    LET frame == Head(b.stack)
        name  == Head(frame.kids)
        rest  == <<[frame EXCEPT !.kids = Tail(frame.kids)]>> \o Tail(b.stack)
    IN  IF fr.err = "ok"
        THEN [rt  |-> rtAppend(b.rt, name, fr.doc),
              stack |-> PopDone(<<[kids  |-> DelegNames(fr.doc),
                                   level |-> IF frame.level = "init" THEN "top" ELSE "nested"]>>
                                \o rest),
              err |-> "ok"]
        ELSE IF frame.level = "nested" /\ fr.err = "errTargetSeen"
        THEN [b EXCEPT !.stack = PopDone(rest)]
        ELSE [b EXCEPT !.err = fr.err]

\* localTargetFetcher.fetch: the role file of the local repository.
localFetch(files, name) ==
    IF name \in DOMAIN files /\ IsSome(files[name]) /\ "partial" \notin DOMAIN Get(files[name])
    THEN [err |-> "ok", doc |-> Get(files[name])]
    ELSE [err |-> "errLocalRead", doc |-> None]

\* targetTreeBuilder driven by the local fetcher.  fuel bounds the number of
\* fetches: the local fetcher keeps no visited set.  b2 is the builder after
\* one fetch; binding it computes the step once for the rest of the run.
RECURSIVE runLocal(_, _, _)
runLocal(files, b, fuel) ==
    IF BuilderDone(b) THEN b
    ELSE IF fuel = 0 THEN [b EXCEPT !.err = "errStackOverflow"]
    ELSE CHOOSE r \in {runLocal(files, b2, fuel - 1) :
                            b2 \in {BuilderStep(b, localFetch(files, BuilderNext(b)))}} : TRUE

LocalFuel == 8

\* localRepo.targets
localTargets(files) == runLocal(files, BuilderStart, LocalFuel)

(***************************************************************************)
(* The role documents the environment can serve.  A signature is           *)
(* [keyid, st]: st says what the ECDSA verifier finds for it.              *)
(***************************************************************************)
GoodSig(k) == [keyid |-> k, st |-> "good"]
BadSig(k) == [keyid |-> k, st |-> "bad"]
SigChoices == {<<GoodSig("k1")>>, <<BadSig("k1")>>}

RootRoles == [r \in FixedRoles |-> [threshold |-> 1, keyids |-> {"k1"}]]

\* The documents Notary may serve, by the versions and expiry times that
\* occur in them.
RootDocs(vs, es, ss) ==
    {[keys |-> {"k1"}, sigs |-> s, version |-> v, expires |-> e, roles |-> RootRoles] :
        v \in vs, e \in es, s \in ss}

TimestampDocs(vs, es, ms, ss) ==
    {[sigs |-> s, version |-> v, expires |-> e, hasSnapshotMeta |-> m] :
        v \in vs, e \in es, m \in ms, s \in ss}

MetaChoices == {TargetNames, {roleTargets}}

SnapshotDocs(vs, es, ms, ss) ==
    {[sigs |-> s, version |-> v, expires |-> e, meta |-> m] :
        v \in vs, e \in es, m \in ms, s \in ss}

Delegation(n) == [threshold |-> 1, name |-> n, keyids |-> {"k1"}]

\* The delegations a targets document may carry: depth says how deep the
\* delegation tree may get.
DelegChoices(name, depth) ==
    IF name = roleTargets /\ depth >= 1
    THEN {<<>>, <<Delegation("targets/a")>>} \cup
         (IF depth >= 2 THEN {<<Delegation("targets/a"), Delegation("targets/b")>>} ELSE {})
    ELSE IF name = "targets/a" /\ depth >= 2 THEN {<<>>, <<Delegation("targets/b")>>}
    ELSE {<<>>}

Bodies == UNION {[1..n -> {0, 1}] : n \in 0..MaxLen}
FimOf(body) == [length |-> Len(body), hashes |-> [a \in {hashSHA256} |-> Hash(a, body)]]
TargetPaths == {"p1"}

TargetsDocs(name, vs, es, depth, paths, ss) ==
    {[sigs |-> sg,
      targets |-> t,
      delegs |-> d,
      version |-> v,
      expires |-> e,
      dkeys |-> {}] :
        v \in vs, e \in es, sg \in ss, d \in DelegChoices(name, depth),
        t \in paths}

\* The zero value of a role struct: what getRole leaves in it when it
\* returns without decoding a body.
ZeroTime == 0 - 1
ZeroRoot == [keys |-> {},
             sigs |-> <<>>,
             version |-> 0,
             expires |-> ZeroTime,
             roles |-> [r \in FixedRoles |-> [threshold |-> 0, keyids |-> {}]]]
ZeroTimestamp == [sigs |-> <<>>, version |-> 0, expires |-> ZeroTime, hasSnapshotMeta |-> FALSE]
ZeroSnapshot == [sigs |-> <<>>, version |-> 0, expires |-> ZeroTime, meta |-> {}]

\* An HTTP exchange with Notary: "neterr" is a transport error, otherwise
\* the status of the response; intact says whether the body passes the
\* length and hash tests the caller derived from the parent role.
Statuses == {"200", "404", "500", "neterr"}
Failures == {[doc |-> None, status |-> st, intact |-> TRUE] : st \in Statuses \ {"200"}}
Served(docs) == {[doc |-> d, status |-> "200", intact |-> TRUE] : d \in docs}
Damaged(docs) == {[doc |-> d, status |-> "200", intact |-> FALSE] : d \in docs}
Responses(docs) == Served(docs) \cup Damaged(docs) \cup Failures

\* notaryRepo.getRole: a transport error and 404 are errors; any other
\* status than 200 returns errors.Wrap(nil, ...), which is nil, with the
\* role left at its zero value.
getRole(resp, zero, tested) ==
    IF resp.status = "neterr" THEN [err |-> "errTransport", doc |-> zero]
    ELSE IF resp.status = "404" THEN [err |-> "errNotFound", doc |-> zero]
    ELSE IF resp.status # "200" THEN [err |-> "ok", doc |-> zero]
    ELSE IF tested /\ ~resp.intact THEN [err |-> "errHashMismatch", doc |-> zero]
    ELSE [err |-> "ok", doc |-> resp.doc]

(***************************************************************************)
(* notaryTargetFetcher.                                                    *)
(***************************************************************************)
\* newNotaryTargetFetcher
newNotaryTargetFetcher(root, previous) ==
    LET targetRole == root.roles[roleTargets]
    IN  [keys  |-> targetRole.keyids,
         err   |-> IF targetRole.keyids \subseteq root.keys THEN "ok" ELSE "errNoKey",
         roles |-> [n \in {roleTargets} |->
                       [threshold |-> targetRole.threshold, keyids |-> targetRole.keyids]],
         localRootTarget |-> previous,
         seen  |-> {}]

\* A comparison that leaves out the test of the version.
compareExpiryOnly(localRT, clockNow, delegate, target) ==
    IF delegate \notin DOMAIN localRT.lookup THEN "ok"
    ELSE IF clockNow > target.expires THEN "errFreezeAttack"
    ELSE "ok"

\* compareToExistingTarget
compareToExistingTarget(localRT, clockNow, delegate, target) ==
    IF delegate \notin DOMAIN localRT.lookup THEN "ok"
    ELSE IF localRT.lookup[delegate].version > target.version THEN "errRollbackAttack"
    ELSE IF clockNow > target.expires THEN "errFreezeAttack"
    ELSE "ok"

\* saveKeysForRoles
saveKeysForRoles(f, target) ==
    [f EXCEPT !.keys = @ \cup target.dkeys,
              !.roles = FnMerge([n \in {target.delegs[i].name : i \in DOMAIN target.delegs} |->
                                   LET i == CHOOSE j \in DOMAIN target.delegs :
                                              /\ target.delegs[j].name = n
                                              /\ \A k \in DOMAIN target.delegs :
                                                    target.delegs[k].name = n => k <= j
                                   IN [threshold |-> target.delegs[i].threshold,
                                       keyids |-> target.delegs[i].keyids]],
                                @)]

\* A fetch that saves the keys and roles of a document before it verifies
\* the signatures.
notaryFetchKeysFirst(f, snapshot, clockNow, delegate, resp) ==
    IF Cardinality(f.seen) > maxDelegationCount
    THEN [f |-> f, err |-> "errTooManyDelegates", doc |-> None]
    ELSE IF delegate \in f.seen
    THEN [f |-> f, err |-> "errTargetSeen", doc |-> None]
    ELSE LET f1 == [f EXCEPT !.seen = @ \cup {delegate}]
             fail(e) == [f |-> f1, err |-> e, doc |-> None]
         IN  IF resp.status = "neterr" THEN fail("errTransport")
             ELSE IF resp.status # "200" THEN fail("errNotaryStatus")
             ELSE IF delegate \notin snapshot.meta THEN fail("errFimMissing")
             ELSE IF ~resp.intact THEN fail("errIntegrity")
             ELSE IF delegate \notin DOMAIN f1.roles THEN fail("errNoRoleInfo")
             ELSE IF verifySignatures(f1.keys, resp.doc.sigs, f1.roles[delegate].threshold) # "ok"
                  THEN [f |-> saveKeysForRoles(f1, resp.doc), err |-> "errSignature",
                        doc |-> None]
             ELSE IF compareToExistingTarget(f1.localRootTarget, clockNow, delegate, resp.doc)
                         # "ok"
                  THEN fail(compareToExistingTarget(f1.localRootTarget, clockNow, delegate,
                                                    resp.doc))
             ELSE [f |-> saveKeysForRoles(f1, resp.doc), err |-> "ok", doc |-> resp.doc]

\* notaryTargetFetcher.fetch: [err, doc, f] with f the fetcher afterwards.
notaryFetch(f, snapshot, clockNow, delegate, resp) ==
    IF Cardinality(f.seen) > maxDelegationCount
    THEN [f |-> f, err |-> "errTooManyDelegates", doc |-> None]
    ELSE IF delegate \in f.seen
    THEN [f |-> f, err |-> "errTargetSeen", doc |-> None]
    ELSE LET f1 == [f EXCEPT !.seen = @ \cup {delegate}]
             fail(e) == [f |-> f1, err |-> e, doc |-> None]
         IN  IF resp.status = "neterr" THEN fail("errTransport")
             ELSE IF resp.status # "200" THEN fail("errNotaryStatus")
             ELSE IF delegate \notin snapshot.meta THEN fail("errFimMissing")
             ELSE IF ~resp.intact THEN fail("errIntegrity")
             ELSE IF delegate \notin DOMAIN f1.roles THEN fail("errNoRoleInfo")
             ELSE IF verifySignatures(f1.keys, resp.doc.sigs, f1.roles[delegate].threshold) # "ok"
                  THEN fail("errSignature")
             ELSE IF compareToExistingTarget(f1.localRootTarget, clockNow, delegate, resp.doc)
                         # "ok"
                  THEN fail(compareToExistingTarget(f1.localRootTarget, clockNow, delegate,
                                                    resp.doc))
             ELSE [f |-> saveKeysForRoles(f1, resp.doc), err |-> "ok", doc |-> resp.doc]

\* A comparison that reports the paths whose FIM differs and not the new ones.
getChangedExistingPaths(local, fromNotary) ==
    {p \in DOMAIN fromNotary.paths \cap DOMAIN local.paths :
        ~FimEqual(fromNotary.paths[p], local.paths[p])}

\* getChangedPaths
getChangedPaths(local, fromNotary) ==
    {p \in DOMAIN fromNotary.paths :
        \/ p \notin DOMAIN local.paths
        \/ ~FimEqual(fromNotary.paths[p], local.paths[p])}

(***************************************************************************)
(* persistence.go.  files maps every role file name to its content, if the *)
(* file exists.  A write that fails part-way leaves Partial in the file.   *)
(***************************************************************************)
Partial == [partial |-> TRUE]
IsDoc(o) == IsSome(o) /\ "partial" \notin DOMAIN Get(o)

\* A save that writes the fixed roles and no delegate.
saveFixedRolesOnly(rm) == <<roleRoot, roleTimestamp, roleSnapshot, roleTargets>>

\* The role files saveTufRepository writes, in the order it writes them: the
\* fixed roles, then targetPrecedence without its first entry.
saveOrder(rm) ==
    <<roleRoot, roleTimestamp, roleSnapshot, roleTargets>> \o Tail(Get(rm.targets).prec)

savedDoc(rm, name) ==
    IF name = roleRoot THEN Get(rm.root)
    ELSE IF name = roleTimestamp THEN Get(rm.timestamp)
    ELSE IF name = roleSnapshot THEN Get(rm.snapshot)
    ELSE Get(rm.targets).lookup[name]

\* The layout of the time tag in the name of a backup file: seconds, no finer.
backupFileTimeTagFormat == "20060102150405"

\* The tag saveTufRepository gives the backup files of one save: the UTC
\* time of the clock (utc), formatted with a layout that is itself the
\* local time of the clock (lcl) formatted with backupFileTimeTagFormat.
\* Both times are whole seconds, and the tag is written as the term the two
\* calls of Format build.
backupTag(lcl, utc) == <<<<backupFileTimeTagFormat, lcl>>, utc>>

\* backupTUFRepo: a tagged copy of every role file that exists.
backupTUFRepo(files) == files

\* A restore that copies nothing back.
restoreNothing(files, backup) == files

\* restoreTUFRepo: every tagged copy is copied back over its role file; a
\* file that has no tagged copy is left as it is.
restoreTUFRepo(files, backup) ==
    [n \in DOMAIN files |-> IF IsSome(backup[n]) THEN backup[n] ELSE files[n]]

\* A save that writes the fixed roles and no targets file.
writeFixedRoles(files, rm, order, k) ==
    [n \in DOMAIN files |->
        IF n \in {roleRoot, roleTimestamp, roleSnapshot} THEN Some(savedDoc(rm, n))
        ELSE files[n]]

\* The files after the first k roles of order were written.
RECURSIVE writeRoles(_, _, _, _)
writeRoles(files, rm, order, k) ==
    IF k = 0 THEN files
    ELSE [writeRoles(files, rm, order, k - 1) EXCEPT ![order[k]] = Some(savedDoc(rm, order[k]))]

FailPoints(rm) ==
    {<<"none", 0>>, <<"gc", 0>>, <<"backup", 0>>}
        \cup {<<"write", k>> : k \in 1..Len(saveOrder(rm))}

\* saveTufRepository.  fail is the step of the save that meets an I/O error
\* ("none": no step does): removing aged backups ("gc"), taking the backup,
\* or writing the k-th role (<<"write", k>>), which leaves that file
\* untouched or, with torn, partly written.  Restoring is the copy back of the tagged files.
saveTufRepository(files, rm, fail, torn) ==
    IF fail[1] = "none"
    THEN [err |-> "ok", files |-> writeRoles(files, rm, saveOrder(rm), Len(saveOrder(rm)))]
    ELSE IF fail[1] \in {"gc", "backup"}
    THEN [err |-> "errSave", files |-> files]
    ELSE LET order   == saveOrder(rm)
             written == writeRoles(files, rm, order, fail[2] - 1)
             failed  == IF torn THEN [written EXCEPT ![order[fail[2]]] = Some(Partial)]
                        ELSE written
         IN  [err |-> "errSave", files |-> restoreTUFRepo(failed, backupTUFRepo(files))]

(***************************************************************************)
(* State.                                                                  *)
(***************************************************************************)
VARIABLES
    callerPc,     \* per caller: "idle", "sending" (blocked in c.jobs <- job),
                  \* "waiting" (blocked in <-resultC), "returned"
    callerOp,     \* per caller: the call it makes, [kind, target]
    callerRes,    \* per caller: what its call returned
    callerDest,   \* per caller: the bytes written to the destination of Download
    callsMade,    \* per caller: the number of calls it has made
    wpc,          \* workerLoop: "select", "run" (inside a job or an auto-update), "exited"
    op,           \* what the worker runs: [kind, owner]
    pc,           \* where the worker is inside op
    active,       \* the operations that are executing against the repoMan
    tickReady,    \* the ticker channel holds a tick
    forcePending, \* NewClient is blocked in forceAutoUpdate <- struct{}{}
    autoupdate,   \* an autoupdater is configured (autoupdate != nil)
    stopPc,       \* Stop(): "idle", "waiting" (quit closed, in wait.Wait()), "returned"
    rm,           \* repoMan: root, timestamp, snapshot, targets (each optional)
    disk,         \* the role files of the local repository
    lroot,        \* refreshRoot: its local variable root
    bld,          \* targetTreeBuilder under way in refreshTargets
    fetcher,      \* the notaryTargetFetcher of refreshTargets
    refreshRes,   \* what refresh() returned to the running operation
    now,          \* the injected clock
    wall,         \* time.Now()
    currentFim,   \* autoupdater.currentFim
    staged,       \* the file of the watched target in the staging path
    notes,        \* the notifier calls of the auto-update run under way or last run
    hist          \* history: what the properties below are stated on

vars == <<callerPc, callerOp, callerRes, callerDest, callsMade, wpc, op, pc, active,
          tickReady, forcePending, autoupdate, stopPc, rm, disk, lroot, bld, fetcher,
          refreshRes, now, wall, currentFim, staged, notes, hist>>

Callers == 1..NumCallers
watchedTarget == "p1"
NoOp == [kind |-> "none", owner |-> 0]
NoRes == [err |-> "none", latest |-> FALSE]

\* The repository the application was shipped with.
InitRoot == [keys |-> {"k1"},
             sigs |-> <<GoodSig("k1")>>,
             version |-> 1,
             expires |-> MaxTime,
             roles |-> RootRoles]
InitTimestamp == [sigs |-> <<GoodSig("k1")>>,
                  version |-> 1,
                  expires |-> MaxTime,
                  hasSnapshotMeta |-> TRUE]
InitSnapshot == [sigs |-> <<GoodSig("k1")>>,
                 version |-> 1,
                 expires |-> MaxTime,
                 meta |-> TargetNames]
InitTargets == [sigs |-> <<GoodSig("k1")>>,
                targets |-> EmptyFn,
                delegs |-> <<>>,
                version |-> 1,
                expires |-> MaxTime,
                dkeys |-> {}]
InitDisk ==
    [n \in FileNames |->
        IF n = roleRoot THEN Some(InitRoot)
        ELSE IF n = roleTimestamp THEN Some(InitTimestamp)
        ELSE IF n = roleSnapshot THEN Some(InitSnapshot)
        ELSE IF n = roleTargets THEN Some(InitTargets)
        ELSE None]

InitHist ==
    [enq       |-> <<>>,     \* the jobs in the order the worker received them
     completed |-> {},       \* the jobs that ran to their end
     doneAt    |-> EmptyFn,  \* per job: the jobs completed when it started
     atStop    |-> {},       \* the callers inside a call when Stop() closed quit
     lateRun   |-> FALSE,    \* an operation started after Stop() returned
     result    |-> EmptyFn,  \* per job that completed: its kind and what it returned
     accepted  |-> [n \in FileNames |-> 0],  \* per role: highest version a successful refresh accepted
     rollback  |-> {},       \* roles the last successful refresh accepted below accepted
     rollbackPrev |-> {},    \* ... below their version in the repository it started from
     frozen    |-> {},       \* roles the refresh under way or last run took from Notary and
                             \* accepted when the injected clock was past their expiry
     snapshotSeen |-> 0,     \* the version of the snapshot the last snapshot step got from Notary
     asked     |-> {},       \* root versions the refresh under way or last run asked Notary for
     taken     |-> {},       \* ... of them those whose answer it accepted
     preDisk   |-> InitDisk, \* the role files when the refresh under way or last run began
     saveTried |-> FALSE,    \* the refresh under way or last run reached saveTufRepository
     lastTag   |-> None,     \* the backup tag of the last save
     delivered |-> {},       \* per successful download: the FIM of the tree and the bytes written
     ticks     |-> 0,        \* the ticks the worker took from the ticker
     runs      |-> 0,        \* the auto-update runs the worker began
     forced    |-> FALSE,    \* the worker took the signal of forceAutoUpdate
     mirror    |-> <<>>,     \* the last call of downloadTarget: who made it, the FIM of the
                             \* tree (if any), the answer of the mirror and the error returned
     same      |-> FALSE,    \* the last refresh that was saved took from Notary the
                             \* documents of the one saved before it
     fetched   |-> <<>>,     \* the role names the fetcher was asked for, in order, in the
                             \* target-tree build under way
     lastGood  |-> [n \in {roleRoot, roleTimestamp, roleSnapshot, roleTargets} |-> Get(InitDisk[n])]]
                             \* the documents of the last refresh that was saved

Init ==
    /\ callerPc = [c \in Callers |-> "idle"]
    /\ callerOp = [c \in Callers |-> [target |-> "none", kind |-> "none"]]
    /\ callerRes = [c \in Callers |-> NoRes]
    /\ callerDest = [c \in Callers |-> <<>>]
    /\ callsMade = [c \in Callers |-> 0]
    /\ wpc = "select"
    /\ op = NoOp
    /\ pc = "none"
    /\ active = {}
    /\ tickReady = FALSE
    /\ forcePending \in BOOLEAN
    /\ autoupdate \in BOOLEAN
    /\ stopPc = "idle"
    /\ rm = [root |-> None, targets |-> None, snapshot |-> None, timestamp |-> None]
    /\ disk = InitDisk
    /\ lroot = None
    /\ bld = None
    /\ fetcher = None
    /\ refreshRes = NoRes
    /\ now = 0
    /\ wall = 0
    /\ currentFim = [length |-> 0, hashes |-> EmptyFn]
    /\ staged = None
    /\ notes = <<>>
    /\ hist = InitHist

(***************************************************************************)
(* The callers, Stop() and the clocks.                                     *)
(***************************************************************************)
coordVars == <<wpc, op, pc, active, tickReady, forcePending, autoupdate, stopPc>>
callerVars == <<callerPc, callerOp, callerRes, callerDest, callsMade>>
repoVars == <<rm, disk, lroot, bld, fetcher, refreshRes>>
auVars == <<currentFim, staged, notes>>
clockVars == <<now, wall>>

\* Update() and Download() up to the send on c.jobs.  NewClient has returned
\* the client, and its user has not begun to shut it down.
CallerSend(c, kind, target, limit) ==
    /\ callerPc[c] \in {"idle", "returned"}
    /\ callsMade[c] < limit
    /\ ~forcePending
    /\ stopPc = "idle"
    /\ callerPc' = [callerPc EXCEPT ![c] = "sending"]
    /\ callerOp' = [callerOp EXCEPT ![c] = [target |-> target, kind |-> kind]]
    /\ callerRes' = [callerRes EXCEPT ![c] = NoRes]
    /\ callerDest' = [callerDest EXCEPT ![c] = <<>>]
    /\ callsMade' = [callsMade EXCEPT ![c] = @ + 1]
    /\ UNCHANGED <<coordVars, repoVars, auVars, clockVars, hist>>

\* A Stop() that may run while NewClient has not yet handed over the signal
\* of forceAutoUpdate.
StopDuringNewClient ==
    /\ stopPc = "idle"
    /\ stopPc' = "waiting"
    /\ hist' = [hist EXCEPT !.atStop = {c \in Callers : callerPc[c] \in {"sending", "waiting"}}]
    /\ UNCHANGED <<wpc, op, pc, active, tickReady, forcePending, autoupdate,
                   callerVars, repoVars, auVars, clockVars>>

\* Client.Stop: close(c.quit) ...
StopClose ==
    /\ stopPc = "idle"
    /\ ~forcePending
    /\ stopPc' = "waiting"
    /\ hist' = [hist EXCEPT !.atStop = {c \in Callers : callerPc[c] \in {"sending", "waiting"}}]
    /\ UNCHANGED <<wpc, op, pc, active, tickReady, forcePending, autoupdate,
                   callerVars, repoVars, auVars, clockVars>>

\* c.wait.Wait() returns: the counter NewClient raised by wait.Add(1) is back
\* at zero, which the deferred wait.Done() of workerLoop does.
StopNeverWaits == TRUE
waitDone == wpc = "exited"

\* ... c.wait.Wait()
StopReturn ==
    /\ stopPc = "waiting"
    /\ waitDone
    /\ stopPc' = "returned"
    /\ UNCHANGED <<wpc, op, pc, active, tickReady, forcePending, autoupdate,
                   callerVars, repoVars, auVars, clockVars, hist>>

\* The injected clock advances by checkFrequency: the ticker offers a tick
\* (its channel holds at most one).
ClockTick(limit) ==
    /\ now < limit
    /\ now' = now + 1
    /\ tickReady' = TRUE
    /\ UNCHANGED <<wall, wpc, op, pc, active, forcePending, autoupdate, stopPc,
                   callerVars, repoVars, auVars, hist>>

AdvanceClock == ClockTick(MaxTime)

AdvanceWall ==
    /\ wall < MaxTime
    /\ wall' = wall + 1
    /\ UNCHANGED <<now, coordVars, callerVars, repoVars, auVars, hist>>

(***************************************************************************)
(* workerLoop.                                                             *)
(***************************************************************************)
\* The worker is at its select statement.
AtAnyPoint == wpc # "exited"
AtSelect == wpc = "select"

JobOf(c) == <<c, callsMade[c]>>

\* The worker starts o and is back at its select at once: go job(rm).
StartOpAsync(o, first) ==
    /\ wpc' = "select"
    /\ op' = o
    /\ pc' = first
    /\ active' = active \cup {o}

\* The worker calls o: job(rm) or autoupdate.update(rm).
StartOp(o, first) ==
    /\ wpc' = "run"
    /\ op' = o
    /\ pc' = first
    /\ active' = active \cup {o}

EndOp ==
    /\ wpc' = "select"
    /\ op' = NoOp
    /\ pc' = "none"
    /\ active' = active \ {op}

NoteStart(h) == [h EXCEPT !.lateRun = @ \/ stopPc = "returned"]

\* case job := <-jobs: job(rm)
WorkerRecvJob(c) ==
    /\ AtSelect
    /\ callerPc[c] = "sending"
    /\ callerPc' = [callerPc EXCEPT ![c] = "waiting"]
    /\ StartOp([kind |-> callerOp[c].kind, owner |-> c],
               IF callerOp[c].kind = "update" THEN "rootload" ELSE "download")
    /\ hist' = [NoteStart(hist) EXCEPT !.enq = Append(@, JobOf(c)),
                                       !.doneAt = FnPut(@, JobOf(c), hist.completed)]
    /\ UNCHANGED <<callerOp, callerRes, callerDest, callsMade, tickReady, forcePending,
                   autoupdate, stopPc, repoVars, auVars, clockVars>>

\* A worker that takes the tick and runs nothing.
TickIgnored ==
    /\ AtSelect
    /\ tickReady
    /\ tickReady' = FALSE
    /\ hist' = [hist EXCEPT !.ticks = @ + 1]
    /\ UNCHANGED <<wpc, op, pc, active, notes>>
    /\ UNCHANGED <<forcePending, autoupdate, stopPc, callerVars, repoVars, currentFim,
                   staged, clockVars>>

\* case <-ticker: if autoupdate != nil { autoupdate.update(rm) }
WorkerTick ==
    /\ AtSelect
    /\ tickReady
    /\ tickReady' = FALSE
    /\ IF autoupdate
       THEN /\ StartOp([kind |-> "auto", owner |-> 0], "rootload")
            /\ notes' = <<>>
            /\ hist' = [NoteStart(hist) EXCEPT !.ticks = @ + 1, !.runs = @ + 1]
       ELSE /\ hist' = [hist EXCEPT !.ticks = @ + 1]
            /\ UNCHANGED <<wpc, op, pc, active, notes>>
    /\ UNCHANGED <<forcePending, autoupdate, stopPc, callerVars, repoVars, currentFim,
                   staged, clockVars>>

\* case <-forceAutoUpdate: if autoupdate != nil { autoupdate.update(rm) }
WorkerForce ==
    /\ AtSelect
    /\ forcePending
    /\ forcePending' = FALSE
    /\ IF autoupdate
       THEN /\ StartOp([kind |-> "auto", owner |-> 0], "rootload")
            /\ notes' = <<>>
            /\ hist' = [NoteStart(hist) EXCEPT !.forced = TRUE, !.runs = @ + 1]
       ELSE /\ hist' = [hist EXCEPT !.forced = TRUE]
            /\ UNCHANGED <<wpc, op, pc, active, notes>>
    /\ UNCHANGED <<tickReady, autoupdate, stopPc, callerVars, repoVars, currentFim,
                   staged, clockVars>>

\* case <-quit: return (and the deferred wait.Done())
WorkerQuit ==
    /\ AtSelect
    /\ stopPc # "idle"
    /\ wpc' = "exited"
    /\ UNCHANGED <<op, pc, active, tickReady, forcePending, autoupdate, stopPc,
                   callerVars, repoVars, auVars, clockVars, hist>>

(***************************************************************************)
(* repoMan.refresh, one action for each of its steps.  The worker runs it  *)
(* for an Update() job and for an auto-update.                             *)
(***************************************************************************)
\* localRepo.getRole
localRole(files, name) ==
    IF IsDoc(files[name]) THEN [err |-> "ok", doc |-> Get(files[name])]
    ELSE [err |-> "errLocalRead", doc |-> None]

InRefresh(stage) == wpc = "run" /\ op.kind \in {"update", "auto"} /\ pc = stage
AfterRefresh == IF op.kind = "update" THEN "reply" ELSE "notify"

\* A refresh that writes each role it holds as it returns.
refreshAbortPersists(files, memory) ==
    [n \in DOMAIN files |->
        IF n = roleRoot /\ IsSome(memory.root) THEN memory.root
        ELSE IF n = roleTimestamp /\ IsSome(memory.timestamp) THEN memory.timestamp
        ELSE IF n = roleSnapshot /\ IsSome(memory.snapshot) THEN memory.snapshot
        ELSE files[n]]

\* The role files when refresh returns the error of a validation step: it
\* returns before rs.save() is reached.
refreshAbort(files, memory) == files

\* refresh returns err from one of its validation steps.
RefreshFails(err) ==
    /\ refreshRes' = [err |-> err, latest |-> FALSE]
    /\ pc' = AfterRefresh
    /\ disk' = refreshAbort(disk, rm)
    /\ lroot' = None
    /\ bld' = None
    /\ fetcher' = None

Expired(clock, doc) == clock > doc.expires

\* refreshRoot, step 0: the previous root and its signatures.
RefreshRootLoad ==
    /\ InRefresh("rootload")
    /\ hist' = [hist EXCEPT !.preDisk = disk, !.saveTried = FALSE, !.frozen = {},
                            !.rollback = {}, !.rollbackPrev = {},
                            !.asked = {}, !.taken = {}]
    /\ LET r == localRole(disk, roleRoot)
       IN  IF r.err # "ok"
           THEN RefreshFails("errRoot") /\ UNCHANGED rm
           ELSE IF verifySignatures(keymapForSignatures(r.doc), r.doc.sigs,
                                    r.doc.roles[roleRoot].threshold) # "ok"
           THEN RefreshFails("errRoot") /\ UNCHANGED rm
           ELSE /\ lroot' = Some(r.doc)
                /\ pc' = "rootloop"
                /\ UNCHANGED <<rm, disk, bld, fetcher, refreshRes>>
    /\ UNCHANGED <<wpc, op, active, tickReady, forcePending, autoupdate, stopPc,
                   callerVars, auVars, clockVars>>

\* withRootVersion(root.Signed.Version + 1): the version refreshRoot asks for.
nextRootVersion(root) == root.version + 1

\* refreshRoot, one turn of its loop on the answer for (N+1).root, and on
\* NotFound the freeze check that ends it.
RefreshRootLoop(resp) ==
    /\ InRefresh("rootloop")
    /\ LET root == Get(lroot)
           g    == getRole(resp, ZeroRoot, FALSE)
       IN  IF g.err = "errNotFound"
           THEN IF Expired(wall, root)
                THEN /\ RefreshFails("errRoot")
                     /\ hist' = [hist EXCEPT !.asked = @ \cup {nextRootVersion(root)}]
                     /\ UNCHANGED rm
                ELSE /\ rm' = [rm EXCEPT !.root = Some(root)]
                     /\ lroot' = None
                     /\ pc' = "timestamp"
                     /\ hist' = [hist EXCEPT !.frozen =
                                    @ \cup (IF root # Get(disk[roleRoot]) /\ Expired(now, root)
                                            THEN {roleRoot} ELSE {}),
                                            !.asked = @ \cup {nextRootVersion(root)}]
                     /\ UNCHANGED <<disk, bld, fetcher, refreshRes>>
           ELSE IF \/ g.err # "ok"
                   \/ verifySignatures(keymapForSignatures(root), g.doc.sigs,
                                       root.roles[roleRoot].threshold) # "ok"
                   \/ verifySignatures(keymapForSignatures(g.doc), g.doc.sigs,
                                       g.doc.roles[roleRoot].threshold) # "ok"
                   \/ root.version > g.doc.version
           THEN /\ RefreshFails("errRoot")
                /\ hist' = [hist EXCEPT !.asked = @ \cup {nextRootVersion(root)}]
                /\ UNCHANGED rm
           ELSE /\ lroot' = Some(g.doc)
                /\ hist' = [hist EXCEPT !.asked = @ \cup {nextRootVersion(root)},
                                        !.taken = @ \cup {nextRootVersion(root)}]
                /\ UNCHANGED <<rm, disk, bld, fetcher, refreshRes, pc>>
    /\ UNCHANGED <<wpc, op, active, tickReady, forcePending, autoupdate, stopPc,
                   callerVars, auVars, clockVars>>

\* refreshTimestamp
RefreshTimestamp(resp) ==
    /\ InRefresh("timestamp")
    /\ LET root == Get(rm.root)
           g    == getRole(resp, ZeroTimestamp, FALSE)
           prev == localRole(disk, roleTimestamp)
       IN  IF \/ g.err # "ok"
              \/ verifySignatures(getKeys(root, g.doc.sigs), g.doc.sigs,
                                  root.roles[roleTimestamp].threshold) # "ok"
              \/ prev.err # "ok"
              \/ prev.doc.version > g.doc.version
              \/ Expired(now, g.doc)
           THEN RefreshFails("errTimestamp") /\ UNCHANGED rm
           ELSE /\ rm' = [rm EXCEPT !.timestamp = Some(g.doc)]
                /\ pc' = "snapshot"
                /\ UNCHANGED <<disk, lroot, bld, fetcher, refreshRes>>
    /\ UNCHANGED <<wpc, op, active, tickReady, forcePending, autoupdate, stopPc,
                   callerVars, auVars, clockVars, hist>>

\* A comparison that finds no role of the tree above v.
NewerThanNothing(rt, v) == {}

\* The versions of the roles of a target tree that exceed v.
NewerThan(rt, v) == {n \in DOMAIN rt.lookup : rt.lookup[n].version > v}

\* refreshSnapshot
RefreshSnapshot(resp) ==
    /\ InRefresh("snapshot")
    /\ LET root    == Get(rm.root)
           g       == getRole(resp, ZeroSnapshot, TRUE)
           prev    == localRole(disk, roleSnapshot)
           trusted == localTargets(disk)
       IN  IF \/ ~Get(rm.timestamp).hasSnapshotMeta
              \/ g.err # "ok"
              \/ verifySignatures(getKeys(root, g.doc.sigs), g.doc.sigs,
                                  root.roles[roleSnapshot].threshold) # "ok"
              \/ prev.err # "ok"
           THEN RefreshFails("errSnapshot") /\ UNCHANGED rm
           ELSE IF prev.doc.version > g.doc.version
           THEN RefreshFails("errRollbackAttack") /\ UNCHANGED rm
           ELSE IF trusted.err # "ok"
           THEN RefreshFails("errSnapshot") /\ UNCHANGED rm
           ELSE IF NewerThan(trusted.rt, g.doc.version) # {}
           THEN RefreshFails("errRollbackAttack") /\ UNCHANGED rm
           ELSE IF Expired(now, g.doc)
           THEN RefreshFails("errSnapshot") /\ UNCHANGED rm
           ELSE /\ rm' = [rm EXCEPT !.snapshot = Some(g.doc)]
                /\ pc' = "targetsstart"
                /\ UNCHANGED <<disk, lroot, bld, fetcher, refreshRes>>
    /\ hist' = [hist EXCEPT !.snapshotSeen = getRole(resp, ZeroSnapshot, TRUE).doc.version]
    /\ UNCHANGED <<wpc, op, active, tickReady, forcePending, autoupdate, stopPc,
                   callerVars, auVars, clockVars>>

\* refreshTargets up to the call of notary.targets: the previous tree and
\* the fetcher.
RefreshTargetsStart ==
    /\ InRefresh("targetsstart")
    /\ LET previous == localTargets(disk)
       IN  IF \/ previous.err # "ok"
              \/ newNotaryTargetFetcher(Get(rm.root), previous.rt).err # "ok"
           THEN RefreshFails("errTargets")
           ELSE /\ bld' = Some(BuilderStart)
                /\ fetcher' = Some(newNotaryTargetFetcher(Get(rm.root), previous.rt))
                /\ pc' = "targetsfetch"
                /\ UNCHANGED <<disk, lroot, refreshRes>>
    /\ UNCHANGED <<rm, wpc, op, active, tickReady, forcePending, autoupdate, stopPc,
                   callerVars, auVars, clockVars, hist>>

\* refreshTargets: one fetch of targetTreeBuilder from Notary, and after the
\* last one getChangedPaths.
RefreshTargetsFetch(resp) ==
    /\ InRefresh("targetsfetch")
    /\ LET b        == Get(bld)
           name     == BuilderNext(b)
           previous == Get(fetcher).localRootTarget
           fr       == notaryFetch(Get(fetcher), Get(rm.snapshot), now, name, resp)
           b2       == BuilderStep(b, [err |-> fr.err, doc |-> fr.doc])
       IN  IF b2.err # "ok"
           THEN RefreshFails("errTargets") /\ UNCHANGED <<rm, hist>>
           ELSE /\ hist' = [hist EXCEPT !.frozen =
                               @ \cup (IF fr.err = "ok" /\ Expired(now, fr.doc)
                                       THEN {name} ELSE {})]
                /\ IF b2.stack = <<>>
                   THEN /\ rm' = [rm EXCEPT !.targets = Some(b2.rt)]
                        /\ refreshRes' = [err |-> "pending",
                                          latest |-> getChangedPaths(previous, b2.rt) = {}]
                        /\ pc' = "save"
                        /\ bld' = None
                        /\ fetcher' = None
                        /\ UNCHANGED <<disk, lroot>>
                   ELSE /\ bld' = Some(b2)
                        /\ fetcher' = Some(fr.f)
                        /\ UNCHANGED <<rm, disk, lroot, refreshRes, pc>>
    /\ UNCHANGED <<wpc, op, active, tickReady, forcePending, autoupdate, stopPc,
                   callerVars, auVars, clockVars>>

\* The version of role n in the repoMan.
MemVersion(memory, n) ==
    IF n = roleRoot THEN Get(memory.root).version
    ELSE IF n = roleTimestamp THEN Get(memory.timestamp).version
    ELSE IF n = roleSnapshot THEN Get(memory.snapshot).version
    ELSE Get(memory.targets).lookup[n].version

MemRoles(memory) ==
    {roleRoot, roleTimestamp, roleSnapshot} \cup DOMAIN Get(memory.targets).lookup

\* The documents of the repository in memory, per role file.
MemDocs(memory) == [n \in MemRoles(memory) |-> savedDoc(memory, n)]

\* The roles of the repository that files holds, as the client loads it.
DiskVersion(files, n) == Get(files[n]).version
DiskRoles(files) ==
    {roleRoot, roleTimestamp, roleSnapshot} \cup DOMAIN localTargets(files).rt.lookup

\* refresh: rs.save(), and its return.
RefreshSave(fail, torn) ==
    /\ InRefresh("save")
    /\ LET r == saveTufRepository(disk, rm, fail, torn)
       IN  /\ disk' = r.files
           /\ refreshRes' = IF r.err = "ok" THEN [refreshRes EXCEPT !.err = "ok"]
                            ELSE [err |-> "errSave", latest |-> FALSE]
           /\ hist' = IF r.err = "ok"
                      THEN [hist EXCEPT
                              !.saveTried = TRUE,
                              !.lastTag = Some(backupTag(wall, wall)),
                              !.rollback = {n \in MemRoles(rm) : MemVersion(rm, n) < hist.accepted[n]},
                              !.rollbackPrev = {n \in MemRoles(rm) \cap DiskRoles(disk) :
                                                  MemVersion(rm, n) < DiskVersion(disk, n)},
                              !.lastGood = MemDocs(rm),
                              !.same = (MemDocs(rm) = hist.lastGood),
                              !.accepted = [n \in FileNames |->
                                              IF n \in MemRoles(rm) THEN MemVersion(rm, n) ELSE @[n]]]
                      ELSE [hist EXCEPT !.saveTried = TRUE,
                                        !.lastTag = Some(backupTag(wall, wall))]
    /\ pc' = AfterRefresh
    /\ UNCHANGED <<rm, lroot, bld, fetcher, wpc, op, active, tickReady, forcePending,
                   autoupdate, stopPc, callerVars, auVars, clockVars>>

(***************************************************************************)
(* The jobs of Update() and Download(), and autoupdater.update after its   *)
(* refresh.                                                                *)
(***************************************************************************)
\* The answers of the mirror to the GET of a target.
MirrorStatuses == {"200", "404", "neterr"}
MirrorResponses(bodies) ==
    {[body |-> b, status |-> "200"] : b \in bodies}
        \cup {[body |-> <<>>, status |-> st] : st \in MirrorStatuses \ {"200"}}

\* repoMan.downloadTarget: its error and the bytes that reached destination.
downloadTarget(memory, target, resp) ==
    IF memory.targets = None
    THEN [err |-> "errNoTargets", written |-> <<>>]
    ELSE IF target \notin DOMAIN Get(memory.targets).paths
    THEN [err |-> "errUnknownTarget", written |-> <<>>]
    ELSE IF resp.status = "neterr"
    THEN [err |-> "errTransport", written |-> <<>>]
    ELSE IF resp.status # "200"
    THEN [err |-> "errMirrorStatus", written |-> <<>>]
    ELSE LET fim    == Get(memory.targets).paths[target]
             stream == Take(resp.body, fim.length)
         IN  [err |-> fimVerify(fim, stream), written |-> fimReads(fim, stream)]

Delivery(memory, target, bytes) ==
    [fim |-> Get(memory.targets).paths[target], bytes |-> bytes]

\* A call of downloadTarget, as hist.mirror keeps it.
Exchange(by, memory, target, resp) ==
    Some([fim |-> IF memory.targets # None /\ target \in DOMAIN Get(memory.targets).paths
                  THEN Some(Get(memory.targets).paths[target]) ELSE None,
          err |-> downloadTarget(memory, target, resp).err,
          resp |-> resp,
          by |-> by])

\* The job of Update() after rm.refresh(): the send on resultC, and Update()
\* returning it.
UpdateReply ==
    /\ wpc = "run"
    /\ op.kind = "update"
    /\ pc = "reply"
    /\ LET c == op.owner
       IN  /\ callerRes' = [callerRes EXCEPT ![c] =
                  IF refreshRes.err # "ok" THEN [err |-> refreshRes.err, latest |-> FALSE]
                  ELSE IF rm.targets = None THEN [err |-> "errNoTargets", latest |-> FALSE]
                  ELSE [err |-> "ok", latest |-> refreshRes.latest]]
           /\ callerPc' = [callerPc EXCEPT ![c] = "returned"]
           /\ hist' = [hist EXCEPT
                         !.completed = @ \cup {JobOf(c)},
                         !.result = FnPut(@, JobOf(c),
                                          [err |-> IF refreshRes.err # "ok" THEN refreshRes.err
                                                   ELSE IF rm.targets = None THEN "errNoTargets"
                                                   ELSE "ok",
                                           kind |-> "update"])]
    /\ EndOp
    /\ refreshRes' = NoRes
    /\ UNCHANGED <<callerOp, callerDest, callsMade, tickReady, forcePending, autoupdate,
                   stopPc, rm, disk, lroot, bld, fetcher, auVars, clockVars>>

\* The job of Download(): rm.downloadTarget, the send on resultC, and
\* Download() returning it.
DownloadJob(resp) ==
    /\ wpc = "run"
    /\ op.kind = "download"
    /\ pc = "download"
    /\ LET c == op.owner
           d == downloadTarget(rm, callerOp[c].target, resp)
       IN  /\ callerRes' = [callerRes EXCEPT ![c] = [err |-> d.err, latest |-> FALSE]]
           /\ callerDest' = [callerDest EXCEPT ![c] = d.written]
           /\ callerPc' = [callerPc EXCEPT ![c] = "returned"]
           /\ hist' = [hist EXCEPT
                         !.completed = @ \cup {JobOf(c)},
                         !.result = FnPut(@, JobOf(c), [err |-> d.err, kind |-> "download"]),
                         !.mirror = Exchange("download", rm, callerOp[c].target, resp),
                         !.delivered = @ \cup (IF d.err = "ok"
                                               THEN {Delivery(rm, callerOp[c].target, d.written)}
                                               ELSE {})]
    /\ EndOp
    /\ UNCHANGED <<callerOp, callsMade, tickReady, forcePending, autoupdate,
                   stopPc, repoVars, auVars, clockVars>>

\* A notifier call that names the file in the staging path whatever the
\* path it was given.
NoteStagedFile(path, err) == [err |-> err, path |-> "p1"]

Note(path, err) == [err |-> err, path |-> path]

\* A failure path that closes the destination file and leaves it.
stagedKeepsPartial(d) == Some(d.written)

\* An update that stores the new FIM whatever downloadAndNotify returned.
storeFimAlways(current, newFim, d) == newFim

\* autoupdater.update: au.currentFim after downloadAndNotify, which called
\* downloadTarget and got d.
storeFim(current, newFim, d) == IF d.err # "ok" THEN current ELSE newFim

\* downloadAndNotify: the file of the watched target in the staging path
\* after downloadTarget returned d, which wrote to it.
stagedAfter(d) == IF d.err # "ok" THEN None ELSE Some(d.written)
StagingIO == {"ok", "mkdir", "create"}

\* autoupdater.update after rm.refresh(), with downloadAndNotify.  io is the
\* step of staging that meets an I/O error ("ok": none does).
AutoNotify(resp, io) ==
    /\ wpc = "run"
    /\ op.kind = "auto"
    /\ pc = "notify"
    /\ IF refreshRes.err # "ok"
       THEN /\ notes' = Append(notes, Note("", refreshRes.err))
            /\ UNCHANGED <<currentFim, staged, hist>>
       ELSE IF rm.targets = None
       THEN /\ notes' = Append(notes, Note("", "errNoTargets"))
            /\ UNCHANGED <<currentFim, staged, hist>>
       ELSE IF watchedTarget \notin DOMAIN Get(rm.targets).paths
       THEN UNCHANGED <<notes, currentFim, staged, hist>>
       ELSE IF FimEqual(Get(rm.targets).paths[watchedTarget], currentFim)
       THEN UNCHANGED <<notes, currentFim, staged, hist>>
       ELSE IF io \in {"mkdir", "create"}
       THEN /\ notes' = Append(notes, Note("", "errIO"))
            /\ UNCHANGED <<currentFim, staged, hist>>
       ELSE LET d == downloadTarget(rm, watchedTarget, resp)
            IN  IF d.err # "ok"
                THEN /\ staged' = stagedAfter(d)
                     /\ notes' = Append(notes, Note("", d.err))
                     /\ hist' = [hist EXCEPT !.mirror = Exchange("auto", rm, watchedTarget, resp)]
                     /\ currentFim' = storeFim(currentFim, Get(rm.targets).paths[watchedTarget], d)
                ELSE /\ staged' = stagedAfter(d)
                     /\ notes' = Append(notes, Note(watchedTarget, "ok"))
                     /\ currentFim' = storeFim(currentFim, Get(rm.targets).paths[watchedTarget], d)
                     /\ hist' = [hist EXCEPT
                                    !.mirror = Exchange("auto", rm, watchedTarget, resp),
                                    !.delivered = @ \cup {Delivery(rm, watchedTarget, d.written)}]
    /\ EndOp
    /\ refreshRes' = NoRes
    /\ UNCHANGED <<tickReady, forcePending, autoupdate, stopPc, callerVars, rm, disk,
                   lroot, bld, fetcher, clockVars>>

(***************************************************************************)
(* The program.                                                            *)
(***************************************************************************)
CallKinds == {"update", "download"}

\* The steps of the worker that take nothing from Notary or the mirror.
Worker ==
    \/ \E c \in Callers : WorkerRecvJob(c)
    \/ RefreshRootLoad
    \/ RefreshTargetsStart
    \/ InRefresh("save") /\ \E fail \in FailPoints(rm), torn \in BOOLEAN : RefreshSave(fail, torn)
    \/ UpdateReply

Shutdown ==
    \/ StopClose
    \/ StopReturn
    \/ WorkerQuit

\* The next targets document asked of Notary is that of role name.
Fetching(name) == InRefresh("targetsfetch") /\ name = BuilderNext(Get(bld))

\* Every caller of NumCallers makes MaxCalls calls, an auto-update runs on
\* force and on every tick, and Stop() is called at any time.  Notary is
\* reachable or not; when it is, it serves one repository.
Good == {<<GoodSig("k1")>>}
OnePath == {[p \in TargetPaths |-> FimOf(<<0>>)]}
Next ==
    \/ Worker
    \/ Shutdown
    \/ WorkerTick
    \/ WorkerForce
    \/ \E c \in Callers, k \in CallKinds : CallerSend(c, k, watchedTarget, MaxCalls)
    \/ AdvanceClock
    \/ \E resp \in Failures : RefreshRootLoop(resp)
    \/ \E resp \in Served(TimestampDocs({1}, {MaxTime}, {TRUE}, Good)) : RefreshTimestamp(resp)
    \/ \E resp \in Served(SnapshotDocs({1}, {MaxTime}, {TargetNames}, Good)) : RefreshSnapshot(resp)
    \/ \E name \in TargetNames :
          \E resp \in Served(TargetsDocs(name, {1}, {MaxTime}, 0, OnePath, Good)) :
             Fetching(name) /\ RefreshTargetsFetch(resp)
    \/ \E resp \in MirrorResponses({<<0>>, <<1>>}) : DownloadJob(resp)
    \/ \E resp \in MirrorResponses({<<0>>, <<1>>}), io \in StagingIO : AutoNotify(resp, io)

Spec == Init /\ [][Next]_vars

\* One caller makes MaxRefreshes calls of Update(), one after the other.
\* Notary serves any version of every role, signed well or badly, with or
\* without the snapshot entry, and targets that may delegate to targets/a.
NextVersions ==
    \/ Worker
    \/ CallerSend(1, "update", watchedTarget, MaxRefreshes)
    \/ \E resp \in Responses(RootDocs(Versions, {MaxTime}, SigChoices)) : RefreshRootLoop(resp)
    \/ \E resp \in Responses(TimestampDocs(Versions, {MaxTime}, BOOLEAN, SigChoices)) :
          RefreshTimestamp(resp)
    \/ \E resp \in Responses(SnapshotDocs(Versions, {MaxTime}, MetaChoices, SigChoices)) :
          RefreshSnapshot(resp)
    \/ \E name \in TargetNames :
          \E resp \in Responses(TargetsDocs(name, Versions, {MaxTime}, 1, OnePath, SigChoices)) :
             Fetching(name) /\ RefreshTargetsFetch(resp)

InitQuiet == Init /\ ~forcePending /\ ~autoupdate

SpecVersions == InitQuiet /\ [][NextVersions]_vars

\* One caller makes MaxSeqCalls calls of Update() while the injected clock
\* and the wall clock advance.  Notary serves documents of any expiry time,
\* and targets that may delegate to targets/a.
NextExpiry ==
    \/ Worker
    \/ CallerSend(1, "update", watchedTarget, MaxSeqCalls)
    \/ AdvanceClock
    \/ AdvanceWall
    \/ \E resp \in Served(RootDocs({1}, Times, Good)) \cup Failures : RefreshRootLoop(resp)
    \/ \E resp \in Served(TimestampDocs({1}, Times, {TRUE}, Good)) : RefreshTimestamp(resp)
    \/ \E resp \in Served(SnapshotDocs({1}, Times, {TargetNames}, Good)) : RefreshSnapshot(resp)
    \/ \E name \in TargetNames :
          \E resp \in Served(TargetsDocs(name, {1}, Times, 1, OnePath, Good)) :
             Fetching(name) /\ RefreshTargetsFetch(resp)

SpecExpiry == InitQuiet /\ [][NextExpiry]_vars

\* One caller makes MaxSeqCalls calls of Update() and Download(), and an
\* auto-update runs on force.  Notary serves targets with any FIM of
\* DownloadFims for the watched target, the mirror any body of Bodies.
TwoDigests(body) ==
    [length |-> Len(body), hashes |-> [a \in SupportedAlgos |-> Hash(a, body)]]
WrongDigest(body) ==
    [length |-> Len(body),
     hashes |-> [a \in SupportedAlgos |-> IF a = hashSHA256 THEN Hash(a, body)
                                          ELSE Hash(a, <<1>>)]]
Undecodable(body) == [length |-> Len(body), hashes |-> [a \in {hashSHA256} |-> InvalidDigest]]
DownloadFims == {FimOf(<<0, 1>>), TwoDigests(<<0>>), WrongDigest(<<0>>), Undecodable(<<0, 1>>)}
DownloadPaths == {EmptyFn} \cup {[p \in TargetPaths |-> f] : f \in DownloadFims}

NextDownload ==
    \/ Worker
    \/ \E k \in CallKinds : CallerSend(1, k, watchedTarget, MaxSeqCalls)
    \/ WorkerForce
    \/ \E resp \in Failures : RefreshRootLoop(resp)
    \/ \E resp \in Served(TimestampDocs({1}, {MaxTime}, {TRUE}, Good)) : RefreshTimestamp(resp)
    \/ \E resp \in Served(SnapshotDocs({1}, {MaxTime}, {TargetNames}, Good)) : RefreshSnapshot(resp)
    \/ \E name \in TargetNames :
          \E resp \in Served(TargetsDocs(name, {1}, {MaxTime}, 0, DownloadPaths, Good)) :
             Fetching(name) /\ RefreshTargetsFetch(resp)
    \/ \E resp \in MirrorResponses(Bodies) : DownloadJob(resp)
    \/ \E resp \in MirrorResponses(Bodies), io \in StagingIO : AutoNotify(resp, io)

SpecDownload == Init /\ [][NextDownload]_vars

\* Every caller of NumCallers makes MaxCalls calls and an auto-update runs
\* on force, in any interleaving.  Notary serves any version of the
\* timestamp and targets that may delegate to targets/a.
NextInterleave ==
    \/ Worker
    \/ \E c \in Callers, k \in CallKinds : CallerSend(c, k, watchedTarget, MaxCalls)
    \/ WorkerForce
    \/ \E resp \in Failures : RefreshRootLoop(resp)
    \/ \E resp \in Served(TimestampDocs(Versions, {MaxTime}, {TRUE}, Good)) : RefreshTimestamp(resp)
    \/ \E resp \in Served(SnapshotDocs({1}, {MaxTime}, {TargetNames}, Good)) : RefreshSnapshot(resp)
    \/ \E name \in TargetNames :
          \E resp \in Served(TargetsDocs(name, {1}, {MaxTime}, 1, OnePath, Good)) :
             Fetching(name) /\ RefreshTargetsFetch(resp)
    \/ \E resp \in MirrorResponses({<<0>>, <<1>>}) : DownloadJob(resp)
    \/ \E resp \in MirrorResponses({<<0>>, <<1>>}), io \in StagingIO : AutoNotify(resp, io)

SpecInterleave == Init /\ [][NextInterleave]_vars /\ WF_vars(NextInterleave)

\* The auto-updater on its own: NewClient forces a first run or not
\* (loadOnStart), and the ticker fires MaxTicks times.  Notary is reachable
\* or not and serves targets with or without the watched target, under one
\* of two FIMs; the mirror answers with any body of Bodies; the save of the
\* repository and the staging of the file meet I/O errors.
MaxTicks == 2
NextAuto ==
    \/ WorkerForce
    \/ WorkerTick
    \/ ClockTick(MaxTicks)
    \/ RefreshRootLoad
    \/ \E resp \in {r \in Failures : r.status \in {"404", "neterr"}} : RefreshRootLoop(resp)
    \/ \E resp \in Served(TimestampDocs({1}, {MaxTicks}, {TRUE}, Good)) : RefreshTimestamp(resp)
    \/ \E resp \in Served(SnapshotDocs({1}, {MaxTicks}, {TargetNames}, Good)) : RefreshSnapshot(resp)
    \/ RefreshTargetsStart
    \/ \E resp \in Served(TargetsDocs(roleTargets, {1}, {MaxTicks}, 0,
                                      {EmptyFn} \cup {[p \in TargetPaths |-> FimOf(b)] : b \in {<<0>>, <<0, 1>>}},
                                      Good)) :
          Fetching(roleTargets) /\ RefreshTargetsFetch(resp)
    \/ InRefresh("save") /\ \E fail \in {<<"none", 0>>, <<"backup", 0>>} : RefreshSave(fail, FALSE)
    \/ \E resp \in MirrorResponses(Bodies), io \in StagingIO : AutoNotify(resp, io)

InitAuto == Init /\ autoupdate

SpecAuto == InitAuto /\ [][NextAuto]_vars

(***************************************************************************)
(* The target-tree build on its own.  disk holds the delegation graph: the *)
(* targets document of every role, which the local fetcher reads from the  *)
(* role files and Notary serves to the remote fetcher.                     *)
(***************************************************************************)
MaxFetches == 55

TreeDoc(paths, delegs) ==
    [sigs |-> <<GoodSig("k1")>>,
     targets |-> paths,
     delegs |-> delegs,
     version |-> 1,
     expires |-> MaxTime,
     dkeys |-> {}]

TreePaths == {EmptyFn} \cup {[p \in TargetPaths |-> f] : f \in {FimOf(<<0>>), FimOf(<<0, 1>>)}}
DelegSeqs(len) == UNION {[1..n -> DelegateNames] : n \in 0..len}
DelegShapes ==
    {d \in [TargetNames -> DelegSeqs(2)] : \A n \in DelegateNames : Len(d[n]) <= 1}

\* Every graph over targets, targets/a and targets/b in which targets lists
\* up to two delegations and a delegate up to one, cycles and repeated
\* names included; every role declares the watched path or not.
SmallGraphs ==
    {[n \in TargetNames |->
         Some(TreeDoc(ps[n], [i \in DOMAIN ds[n] |-> Delegation(ds[n][i])]))] :
        ps \in [TargetNames -> TreePaths], ds \in DelegShapes}

StarNames ==
    <<"targets/d01", "targets/d02", "targets/d03", "targets/d04",
      "targets/d05", "targets/d06", "targets/d07", "targets/d08",
      "targets/d09", "targets/d10", "targets/d11", "targets/d12",
      "targets/d13", "targets/d14", "targets/d15", "targets/d16",
      "targets/d17", "targets/d18", "targets/d19", "targets/d20",
      "targets/d21", "targets/d22", "targets/d23", "targets/d24",
      "targets/d25", "targets/d26", "targets/d27", "targets/d28",
      "targets/d29", "targets/d30", "targets/d31", "targets/d32",
      "targets/d33", "targets/d34", "targets/d35", "targets/d36",
      "targets/d37", "targets/d38", "targets/d39", "targets/d40",
      "targets/d41", "targets/d42", "targets/d43", "targets/d44",
      "targets/d45", "targets/d46", "targets/d47", "targets/d48",
      "targets/d49", "targets/d50", "targets/d51">>

\* targets delegates to k roles that delegate no further.
StarGraph(k) ==
    [n \in {roleTargets} \cup {StarNames[i] : i \in 1..k} |->
        IF n = roleTargets
        THEN Some(TreeDoc(EmptyFn, [i \in 1..k |-> Delegation(StarNames[i])]))
        ELSE Some(TreeDoc(EmptyFn, <<>>))]

StarSizes == {maxDelegationCount - 1, maxDelegationCount, maxDelegationCount + 1}

\* targets delegates to targets/a and targets/b, or to targets/a which
\* delegates to targets/b; targets and targets/a carry the delegation key k2
\* or none, targets/a has a valid signature by k1 or an invalid one, and
\* targets/b is signed by k1 or by k2.
KeyedGraphs ==
    {[n \in TargetNames |->
         IF n = roleTargets
         THEN Some([TreeDoc(EmptyFn, [i \in DOMAIN top |-> Delegation(top[i])])
                       EXCEPT !.dkeys = kt])
         ELSE IF n = "targets/a"
         THEN Some([TreeDoc(EmptyFn, IF Len(top) = 1 THEN <<Delegation("targets/b")>> ELSE <<>>)
                       EXCEPT !.dkeys = ka, !.sigs = sa])
         ELSE Some([TreeDoc(EmptyFn, <<>>) EXCEPT !.sigs = sb])] :
        top \in {<<"targets/a", "targets/b">>, <<"targets/a">>},
        kt \in {{}, {"k2"}}, ka \in {{}, {"k2"}}, sa \in SigChoices,
        sb \in {<<GoodSig("k1")>>, <<GoodSig("k2")>>}}

\* Trees of two levels of delegations: targets delegates to d01 and d02,
\* d01 to d03 and d04 or to d03 alone, and d02 to d05 or to no role.
DeepGraphs ==
    {[n \in {roleTargets} \cup {StarNames[i] : i \in 1..5} |->
         Some(TreeDoc(EmptyFn,
                      IF n = roleTargets
                      THEN <<Delegation(StarNames[1]), Delegation(StarNames[2])>>
                      ELSE IF n = StarNames[1] THEN [i \in DOMAIN s1 |-> Delegation(s1[i])]
                      ELSE IF n = StarNames[2] THEN [i \in DOMAIN s2 |-> Delegation(s2[i])]
                      ELSE <<>>))] :
        s1 \in {<<StarNames[3], StarNames[4]>>, <<StarNames[3]>>},
        s2 \in {<<StarNames[5]>>, <<>>}}

TreeGraphs ==
    SmallGraphs \cup {StarGraph(k) : k \in StarSizes} \cup KeyedGraphs \cup DeepGraphs

InitTree ==
    /\ callerPc = [c \in Callers |-> "idle"]
    /\ callerOp = [c \in Callers |-> [target |-> "none", kind |-> "none"]]
    /\ callerRes = [c \in Callers |-> NoRes]
    /\ callerDest = [c \in Callers |-> <<>>]
    /\ callsMade = [c \in Callers |-> 0]
    /\ wpc = "run"
    /\ op = NoOp
    /\ pc \in {"treelocal", "treeremote"}
    /\ active = {}
    /\ tickReady = FALSE
    /\ forcePending = FALSE
    /\ autoupdate = FALSE
    /\ stopPc = "idle"
    /\ disk \in TreeGraphs
    /\ rm = [root |-> Some(InitRoot),
             targets |-> None,
             snapshot |-> Some([InitSnapshot EXCEPT !.meta = DOMAIN disk]),
             timestamp |-> Some(InitTimestamp)]
    /\ lroot = None
    /\ bld = Some(BuilderStart)
    /\ fetcher = Some(newNotaryTargetFetcher(InitRoot, EmptyRootTarget))
    /\ refreshRes = NoRes
    /\ now = 0
    /\ wall = 0
    /\ currentFim = [length |-> 0, hashes |-> EmptyFn]
    /\ staged = None
    /\ notes = <<>>
    /\ hist = InitHist

TreeBuilding(which) ==
    /\ pc = which
    /\ ~BuilderDone(Get(bld))
    /\ Len(hist.fetched) < MaxFetches

\* One rdr.fetch of targetTreeBuilder / getDelegatedTarget with the local
\* fetcher.
TreeFetchLocal ==
    /\ TreeBuilding("treelocal")
    /\ LET b    == Get(bld)
           name == BuilderNext(b)
       IN  /\ bld' = Some(BuilderStep(b, localFetch(disk, name)))
           /\ hist' = [hist EXCEPT !.fetched = Append(@, name)]
    /\ UNCHANGED <<wpc, op, pc, active, tickReady, forcePending, autoupdate, stopPc,
                   rm, disk, lroot, fetcher, refreshRes, callerVars, auVars, clockVars>>

\* What Notary answers when asked for role name.
TreeResponse(name) ==
    IF name \in DOMAIN disk /\ IsSome(disk[name])
    THEN [doc |-> Get(disk[name]), status |-> "200", intact |-> TRUE]
    ELSE [doc |-> None, status |-> "404", intact |-> TRUE]

\* One rdr.fetch of targetTreeBuilder / getDelegatedTarget with the
\* notaryTargetFetcher.
TreeFetchRemote ==
    /\ TreeBuilding("treeremote")
    /\ LET b    == Get(bld)
           name == BuilderNext(b)
           fr   == notaryFetch(Get(fetcher), Get(rm.snapshot), now, name, TreeResponse(name))
       IN  /\ bld' = Some(BuilderStep(b, [err |-> fr.err, doc |-> fr.doc]))
           /\ fetcher' = Some(fr.f)
           /\ hist' = [hist EXCEPT !.fetched = Append(@, name)]
    /\ UNCHANGED <<wpc, op, pc, active, tickReady, forcePending, autoupdate, stopPc,
                   rm, disk, lroot, refreshRes, callerVars, auVars, clockVars>>

NextTree ==
    \/ TreeFetchLocal
    \/ TreeFetchRemote

SpecTree == InitTree /\ [][NextTree]_vars

(***************************************************************************)
(* The chain of roots and the keys of the roles.  One caller makes          *)
(* MaxCalls calls of Update().  Notary answers a request for a root     *)
(* with 404 or with a root of any version, with one or two keys, a         *)
(* threshold of one or two for the root role, and signatures of KeySigs;   *)
(* a root assigns k1 to the other roles.  The timestamp and the snapshot   *)
(* come with signatures of KeySigs.                                        *)
(***************************************************************************)
KeySigs ==
    {<<GoodSig("k1")>>, <<GoodSig("k2")>>, <<BadSig("k1")>>,
     <<GoodSig("k1"), GoodSig("k2")>>, <<GoodSig("k1"), GoodSig("k1")>>,
     <<BadSig("k1"), GoodSig("k2")>>}
KeyedRoots ==
    {[keys |-> k, sigs |-> s, version |-> v, expires |-> MaxTime,
      roles |-> [r \in FixedRoles |->
                    IF r = roleRoot THEN [threshold |-> t, keyids |-> k]
                    ELSE [threshold |-> 1, keyids |-> {"k1"}]]] :
        k \in {{"k1"}, {"k1", "k2"}}, s \in KeySigs, v \in 1..(MaxVersion + 1), t \in {1, 2}}

NextRoots ==
    \/ Worker
    \/ CallerSend(1, "update", watchedTarget, MaxCalls)
    \/ \E resp \in Served(KeyedRoots) \cup {r \in Failures : r.status = "404"} :
          RefreshRootLoop(resp)
    \/ \E resp \in Served(TimestampDocs({1}, {MaxTime}, {TRUE}, KeySigs)) : RefreshTimestamp(resp)
    \/ \E resp \in Served(SnapshotDocs({1}, {MaxTime}, {TargetNames}, KeySigs)) :
          RefreshSnapshot(resp)
    \/ \E resp \in Served(TargetsDocs(roleTargets, {1}, {MaxTime}, 0, OnePath, Good)) :
          Fetching(roleTargets) /\ RefreshTargetsFetch(resp)

SpecRoots == InitQuiet /\ [][NextRoots]_vars

(***************************************************************************)
(* The bytes of a role read from Notary, on their own.  The parent         *)
(* metadata declares a FIM for the role (timestamp.meta[snapshot] for the  *)
(* snapshot, snapshot.meta[name] for a targets role, the path of the tree  *)
(* for a target on the mirror), the server answers 200 with a body, and    *)
(* the fetch either accepts what it read or fails.                         *)
(* callerOp[1] holds the role, the declared FIM and the body, and          *)
(* callerDest[1] the bytes read into the buffer that is decoded.           *)
(***************************************************************************)
\* The maximum response size of the client (5 megabytes in the code), here
\* one byte short of the longest body so that it cuts a body off.
defaultMaxResponseSize == MaxLen - 1

\* The FIMs the parent metadata may declare: no digest, a digest that does
\* not decode, one of an unknown algorithm, and the digests of a body.
DeclaredFims ==
    {[length |-> l, hashes |-> h] :
        l \in 0..MaxLen,
        h \in {EmptyFn, [a \in {hashSHA256} |-> InvalidDigest],
               [a \in {"md5"} |-> Hash(a, <<>>)]}
                 \cup {[a \in {hashSHA256} |-> Hash(a, b)] : b \in Bodies}
                 \cup {[a \in SupportedAlgos |-> Hash(a, b)] : b \in Bodies}}

\* newHashInfo: the tester of one declared digest.
newHashInfo(algo, expected) ==
    IF algo \notin SupportedAlgos THEN "errUnsupportedHash"
    ELSE IF expected = InvalidDigest THEN "errInvalidHash"
    ELSE "ok"

\* hashInfo.test on the bytes of the buffer.
hashTest(algo, expected, bytes) ==
    IF Hash(algo, bytes) = expected THEN "ok" ELSE "errHashIncorrect"

\* json.Decoder.Decode on the buffer: the body Notary serves is one document,
\* and no shorter prefix of it is one.
decodes(buff, body) == buff # <<>> /\ buff = body

\* A fetch of the snapshot that reads the whole body whatever the length.
snapshotBytesUnlimited(fim, body) ==
    IF \E a \in DOMAIN fim.hashes : newHashInfo(a, fim.hashes[a]) # "ok"
    THEN [err |-> "errHashTests", buff |-> <<>>]
    ELSE IF \E a \in DOMAIN fim.hashes : hashTest(a, fim.hashes[a], body) # "ok"
    THEN [err |-> "errValidating", buff |-> body]
    ELSE IF ~decodes(body, body) THEN [err |-> "errParsing", buff |-> body]
    ELSE [err |-> "ok", buff |-> body]

\* refreshSnapshot down to notary.snapshot(ssOpts...), and getRole with the
\* expected length and the testers: [err, buff].
snapshotBytes(fim, body) ==
    LET limit == IF fim.length > 0 THEN fim.length ELSE defaultMaxResponseSize
        buff  == Take(body, limit)
    IN  IF \E a \in DOMAIN fim.hashes : newHashInfo(a, fim.hashes[a]) # "ok"
        THEN [err |-> "errHashTests", buff |-> <<>>]
        ELSE IF \E a \in DOMAIN fim.hashes : hashTest(a, fim.hashes[a], buff) # "ok"
        THEN [err |-> "errValidating", buff |-> buff]
        ELSE IF ~decodes(buff, body) THEN [err |-> "errParsing", buff |-> buff]
        ELSE [err |-> "ok", buff |-> buff]

\* notaryTargetFetcher.fetch from the LimitReader to the decoding of the
\* validated buffer: [err, buff].
targetsBytes(fim, body) ==
    LET inStream  == Take(body, fim.length)
        validated == fimReads(fim, inStream)
    IN  IF fimVerify(fim, inStream) # "ok"
        THEN [err |-> "errIntegrity", buff |-> validated]
        ELSE IF ~decodes(validated, body) THEN [err |-> "errDecode", buff |-> validated]
        ELSE [err |-> "ok", buff |-> validated]

InitIntegrity ==
    /\ callerPc = [c \in Callers |-> IF c = 1 THEN "calling" ELSE "idle"]
    /\ \/ \E k \in {"snapshot", "targets", "download"}, f \in DeclaredFims, b \in Bodies :
             callerOp = [c \in Callers |->
                           IF c = 1
                           THEN [body |-> b, fim |-> f, target |-> "none", kind |-> k]
                           ELSE [target |-> "none", kind |-> "none"]]
       \/ \E st \in Statuses :
             callerOp = [c \in Callers |->
                           IF c = 1
                           THEN [status |-> st, target |-> "none", kind |-> "role"]
                           ELSE [target |-> "none", kind |-> "none"]]
    /\ callerRes = [c \in Callers |-> NoRes]
    /\ callerDest = [c \in Callers |-> <<>>]
    /\ callsMade = [c \in Callers |-> 0]
    /\ wpc = "select"
    /\ op = NoOp
    /\ pc = "bytes"
    /\ active = {}
    /\ tickReady = FALSE
    /\ forcePending = FALSE
    /\ autoupdate = FALSE
    /\ stopPc = "idle"
    /\ rm = [root |-> None, targets |-> None, snapshot |-> None, timestamp |-> None]
    /\ disk = InitDisk
    /\ lroot = None
    /\ bld = None
    /\ fetcher = None
    /\ refreshRes = NoRes
    /\ now = 0
    /\ wall = 0
    /\ currentFim = [length |-> 0, hashes |-> EmptyFn]
    /\ staged = None
    /\ notes = <<>>
    /\ hist = InitHist

\* The fetch of role kind ends with result r.
BytesFetched(kind, r) ==
    /\ callerPc[1] = "calling" /\ callerOp[1].kind = kind /\ pc = "bytes"
    /\ callerRes' = [callerRes EXCEPT ![1] = [err |-> r.err, latest |-> FALSE]]
    /\ callerDest' = [callerDest EXCEPT ![1] = r.buff]
    /\ callerPc' = [callerPc EXCEPT ![1] = "returned"]
    /\ pc' = "none"
    /\ UNCHANGED <<callerOp, callsMade, wpc, op, active, tickReady, forcePending,
                   autoupdate, stopPc, repoVars, auVars, clockVars, hist>>

FetchSnapshotBytes == BytesFetched("snapshot", snapshotBytes(callerOp[1].fim, callerOp[1].body))
FetchTargetsBytes == BytesFetched("targets", targetsBytes(callerOp[1].fim, callerOp[1].body))

\* repoMan.downloadTarget of a target for which the tree in memory has the
\* declared FIM, the mirror answering 200 with the body.
FetchDownloadBytes ==
    LET d == downloadTarget([targets |-> Some([paths |-> [p \in TargetPaths |-> callerOp[1].fim]])],
                            watchedTarget, [body |-> callerOp[1].body, status |-> "200"])
    IN  BytesFetched("download", [err |-> d.err, buff |-> d.written])

\* notaryRepo.getRole of the snapshot on an answer of the given status.
FetchRoleStatus ==
    LET g == getRole([doc |-> InitSnapshot, status |-> callerOp[1].status, intact |-> TRUE],
                     ZeroSnapshot, TRUE)
    IN  BytesFetched("role", [err |-> g.err, buff |-> <<>>])

NextIntegrity ==
    \/ FetchSnapshotBytes
    \/ FetchTargetsBytes
    \/ FetchDownloadBytes
    \/ FetchRoleStatus

SpecIntegrity == InitIntegrity /\ [][NextIntegrity]_vars

(***************************************************************************)
(* The construction of a client on its own.  Caller 1 calls updater.New or *)
(* tuf.NewClient with a check frequency (in minutes) and loadOnStart, and  *)
(* the health endpoint of Notary answers with a status of HealthStatuses.  *)
(***************************************************************************)
minimumCheckFrequency == 10
defaultCheckFrequency == 60
MaxFrequency == 12
Frequencies == 0..MaxFrequency \cup {defaultCheckFrequency}
HealthStatuses == {"200", "204", "401", "404", "500", "neterr"}

\* updater.New: its error.
New(checkFrequency) ==
    IF checkFrequency < minimumCheckFrequency THEN "ErrCheckFrequency" ELSE "ok"

\* notaryRepo.ping: its error.
ping(status) ==
    IF status = "neterr" THEN "errPing"
    ELSE IF status # "200" THEN "errPingStatus"
    ELSE "ok"

InitConstruct ==
    /\ callerPc = [c \in Callers |-> IF c = 1 THEN "calling" ELSE "idle"]
    /\ \E k \in {"updater.New", "tuf.NewClient"}, f \in Frequencies, l \in BOOLEAN,
          h \in HealthStatuses :
          callerOp = [c \in Callers |->
                        IF c = 1
                        THEN [target |-> "none", kind |-> k, checkFrequency |-> f,
                              loadOnStart |-> l, health |-> h]
                        ELSE [target |-> "none", kind |-> "none"]]
    /\ callerRes = [c \in Callers |-> NoRes]
    /\ callerDest = [c \in Callers |-> <<>>]
    /\ callsMade = [c \in Callers |-> 0]
    /\ wpc = "unstarted"
    /\ op = NoOp
    /\ pc = "options"
    /\ active = {}
    /\ tickReady = FALSE
    /\ forcePending = FALSE
    /\ autoupdate \in BOOLEAN
    /\ stopPc = "idle"
    /\ rm = [root |-> None, targets |-> None, snapshot |-> None, timestamp |-> None]
    /\ disk = InitDisk
    /\ lroot = None
    /\ bld = None
    /\ fetcher = None
    /\ refreshRes = NoRes
    /\ now = 0
    /\ wall = 0
    /\ currentFim = [length |-> 0, hashes |-> EmptyFn]
    /\ staged = None
    /\ notes = <<>>
    /\ hist = InitHist

Constructing(kind, step) ==
    callerPc[1] = "calling" /\ callerOp[1].kind = kind /\ wpc = "unstarted" /\ pc = step

ConstructReturns(err) ==
    /\ callerRes' = [callerRes EXCEPT ![1] = [err |-> err, latest |-> FALSE]]
    /\ callerPc' = [callerPc EXCEPT ![1] = "returned"]

\* updater.New: the options, then the test of checkFrequency.
ConstructUpdater ==
    /\ Constructing("updater.New", "options")
    /\ ConstructReturns(New(callerOp[1].checkFrequency))
    /\ pc' = "none"
    /\ UNCHANGED <<callerOp, callerDest, callsMade, wpc, op, active, tickReady,
                   forcePending, autoupdate, stopPc, repoVars, auVars, clockVars, hist>>

\* NewClient: the options, then notary.ping().
ConstructPing ==
    /\ Constructing("tuf.NewClient", "options")
    /\ IF ping(callerOp[1].health) # "ok"
       THEN ConstructReturns(ping(callerOp[1].health)) /\ pc' = "none"
       ELSE pc' = "ticker" /\ UNCHANGED <<callerRes, callerPc>>
    /\ UNCHANGED <<callerOp, callerDest, callsMade, wpc, op, active, tickReady,
                   forcePending, autoupdate, stopPc, repoVars, auVars, clockVars, hist>>

\* NewClient: clock.NewTicker(checkFrequency), which panics if the period
\* is not positive, go workerLoop(...), and the send on forceAutoUpdate
\* that NewClient stays in until the worker takes it.
ConstructStart ==
    /\ Constructing("tuf.NewClient", "ticker")
    /\ pc' = "none"
    /\ IF callerOp[1].checkFrequency <= 0
       THEN ConstructReturns("panic") /\ UNCHANGED <<wpc, forcePending>>
       ELSE /\ wpc' = "select"
            /\ forcePending' = callerOp[1].loadOnStart
            /\ IF callerOp[1].loadOnStart
               THEN UNCHANGED <<callerRes, callerPc>>
               ELSE ConstructReturns("ok")
    /\ UNCHANGED <<callerOp, callerDest, callsMade, op, active, tickReady,
                   autoupdate, stopPc, repoVars, auVars, clockVars, hist>>

NextConstruct ==
    \/ ConstructUpdater
    \/ ConstructPing
    \/ ConstructStart

SpecConstruct == InitConstruct /\ [][NextConstruct]_vars

(***************************************************************************)
(* Properties of the coordinator.                                          *)
(***************************************************************************)
\* A tick or a force signal is taken by the worker in this step.
SignalServed == (tickReady /\ ~tickReady') \/ (forcePending /\ ~forcePending')

\* C1: at any instant at most one operation (the job of an Update(), the job
\* of a Download(), an auto-update run) is executing against the repoMan,
\* however many callers there are, and the worker takes a tick or a force
\* signal only while no operation runs.
C1_MutualExclusion ==
    /\ [](Cardinality(active) <= 1)
    /\ [][SignalServed => active = {}]_vars

\* C1 witness: an Update() job is running while another caller is blocked in
\* its send and a tick is waiting in the ticker channel.
C1_Witness ==
    /\ wpc = "run"
    /\ op.kind = "update"
    /\ active = {op}
    /\ tickReady
    /\ \E c \in Callers : callerPc[c] = "sending"

\* C7: once Stop() has returned the worker has exited, no operation is
\* running, and none was started after Stop() returned.
C7_StopWaitsForWorker ==
    /\ stopPc = "returned" => (wpc = "exited" /\ active = {})
    /\ ~hist.lateRun

\* C7 witness: Stop() has returned, and it was called while the job of a
\* caller was running, which ran to its end first.
C7_Witness ==
    /\ stopPc = "returned"
    /\ \E c \in hist.atStop : callerPc[c] = "returned"

\* C8: every Update() or Download() call that was outstanding when Stop()
\* was invoked returns to its caller: once the worker has exited, none of
\* them is still blocked.
C8_OutstandingCallsReturn ==
    wpc = "exited" => \A c \in hist.atStop : callerPc[c] = "returned"

\* The jobs the worker received before job number j of hist.enq.
Earlier(j) == {hist.enq[i] : i \in 1..(j - 1)}

\* C9: the jobs run in the order the worker received them: when a job
\* starts, every job received before it has run to its end; and a Download()
\* received after an Update() that succeeded does not find the repoMan
\* without a target tree.
C9_FifoOrder ==
    \A j \in DOMAIN hist.enq :
        /\ Earlier(j) \subseteq hist.doneAt[hist.enq[j]]
        /\ \A a \in Earlier(j) :
              (/\ hist.enq[j] \in DOMAIN hist.result
               /\ hist.result[a].kind = "update"
               /\ hist.result[a].err = "ok"
               /\ hist.result[hist.enq[j]].kind = "download")
                  => hist.result[hist.enq[j]].err # "errNoTargets"

\* C9 witness: an Update() that succeeded was followed by a Download() of
\* another caller that wrote the target.
C9_Witness ==
    /\ Len(hist.enq) = 2
    /\ hist.enq[2] \in DOMAIN hist.result
    /\ hist.result[hist.enq[1]] = [err |-> "ok", kind |-> "update"]
    /\ hist.result[hist.enq[2]] = [err |-> "ok", kind |-> "download"]

(***************************************************************************)
(* Properties of refresh and of the save.                                  *)
(***************************************************************************)
\* The refresh of the operation under way has returned err.
Refreshed(err) == wpc = "run" /\ pc \in {"reply", "notify"} /\ refreshRes.err = err

\* C2, as the specification states it: no role (root, timestamp, snapshot,
\* targets, a delegate) is accepted by a successful refresh at a version
\* below the one a successful refresh accepted for it before.
C2_VersionsNeverDecrease == hist.rollback = {}

\* C2, amended: a successful refresh accepts no role at a version below the
\* one it has in the repository the previous successful refresh persisted;
\* so root, timestamp, snapshot and targets never go down, and a delegate
\* goes down only if the tree persisted before did not delegate to it.
C2_NoRollbackOfTrustedRoles ==
    /\ hist.rollbackPrev = {}
    /\ \A n \in hist.rollback : n \in DelegateNames /\ n \notin DiskRoles(hist.preDisk)

\* C2 witness: a refresh succeeded that accepted targets/a at a version above
\* the one the repository it started from held.
C2_Witness ==
    /\ Refreshed("ok")
    /\ "targets/a" \in DiskRoles(hist.preDisk) \cap MemRoles(rm)
    /\ MemVersion(rm, "targets/a") > DiskVersion(hist.preDisk, "targets/a")

ValidationErrors == {"errRoot", "errTimestamp", "errSnapshot", "errRollbackAttack", "errTargets"}

\* C4: when a validation step of the refresh fails (root chain, timestamp,
\* snapshot, target tree), Update() returns the error and the role files are
\* what they were when the call began.
C4_FailedValidationPersistsNothing ==
    /\ \A e \in ValidationErrors : Refreshed(e) => disk = hist.preDisk
    /\ \A c \in Callers :
          (callerPc[c] = "returned" /\ callerRes[c].err \in ValidationErrors)
              => disk = hist.preDisk

\* C4 witness: Update() returned the error of the snapshot step; the repoMan
\* holds the timestamp that step had accepted, the disk holds the old one.
C4_Witness ==
    /\ callerPc[1] = "returned"
    /\ callerRes[1].err = "errSnapshot"
    /\ rm.timestamp # disk[roleTimestamp]

\* C5: when a step of the save fails after the backup was taken, every role
\* file has the content it had before the save when the error is returned.
C5_FailedSaveRestoresRoleFiles ==
    Refreshed("errSave") => disk = hist.preDisk

\* C3: every role document taken from Notary and accepted by a refresh that
\* succeeds (the final root, timestamp, snapshot, targets, every delegate,
\* also one the client held no copy of) had not expired by the injected
\* clock when it was accepted.
C3_NoExpiredRoleAccepted == Refreshed("ok") => hist.frozen = {}

\* C6: whenever Download() returns nil or the notifier is called with the
\* staging path and a nil error, the bytes written to the destination are as
\* many as the length of the FIM the target tree of the repoMan records for
\* the target, and they hash to every digest that FIM declares.
C6_DeliveredBytesMatchFim ==
    \A d \in hist.delivered :
        /\ Len(d.bytes) = d.fim.length
        /\ \A a \in DOMAIN d.fim.hashes : d.fim.hashes[a] = Hash(a, d.bytes)

\* C6 witness: a Download() returned nil after the mirror sent more bytes
\* than the FIM declares, and the notifier was called with the staging path.
C6_Witness ==
    /\ \E c \in Callers :
          /\ callerPc[c] = "returned"
          /\ callerOp[c].kind = "download"
          /\ callerRes[c].err = "ok"
          /\ callerDest[c] = <<0>>
    /\ \E i \in DOMAIN notes : notes[i].err = "ok"
    /\ staged = Some(<<0, 1>>)

\* No operation runs and no caller is inside a call.
Quiescent == wpc = "select" /\ \A c \in Callers : callerPc[c] \in {"idle", "returned"}

Outcomes == ValidationErrors \cup {"errSave", "ok", "errNoTargets", "errUnknownTarget",
                                   "errTransport", "errMirrorStatus", "errInvalidHash",
                                   "errUnsupportedHash", "errLengthIncorrect",
                                   "errHashIncorrect"}

Tree == Get(bld).rt
TreeBuilt == BuilderDone(Get(bld)) /\ Get(bld).err = "ok"

\* The positions of targetPrecedence whose role declares path p.
Declarers(rt, p) == {i \in DOMAIN rt.prec : p \in DOMAIN rt.lookup[rt.prec[i]].targets}
First(S) == CHOOSE i \in S : \A j \in S : i <= j

\* C11: in every target tree, at every point of its build, a path that one
\* or more roles declare has in paths the FIM that the declaring role of the
\* smallest index in targetPrecedence gives it: a role appended later never
\* overwrites the entry.
C11_EarliestDeclarerOwnsPath ==
    \A p \in TargetPaths :
        Declarers(Tree, p) # {} =>
            /\ p \in DOMAIN Tree.paths
            /\ Tree.paths[p] = Tree.lookup[Tree.prec[First(Declarers(Tree, p))]].targets[p]

\* C11 witness: a remote build ended with targets, targets/a, targets/b in
\* that order, where targets/a and targets/b declare the watched path with
\* different FIMs and targets does not declare it.
C11_Witness ==
    /\ pc = "treeremote"
    /\ TreeBuilt
    /\ Tree.prec = <<roleTargets, "targets/a", "targets/b">>
    /\ Declarers(Tree, watchedTarget) = {2, 3}
    /\ Tree.lookup["targets/a"].targets[watchedTarget]
          # Tree.lookup["targets/b"].targets[watchedTarget]

\* C12: in every target-tree build, with the local or with the remote
\* fetcher, each role name occurs once in targetPrecedence, every entry is
\* a role of the delegation graph, and there are at most maxDelegationCount
\* (50) entries.
C12_PrecedenceListsEachRoleOnce ==
    /\ \A i, j \in DOMAIN Tree.prec : Tree.prec[i] = Tree.prec[j] => i = j
    /\ \A i \in DOMAIN Tree.prec : Tree.prec[i] \in DOMAIN disk
    /\ Len(Tree.prec) <= maxDelegationCount

(***************************************************************************)
(* Properties of the result of Update().                                   *)
(***************************************************************************)
\* The paths of the tree the repoMan holds that the tree persisted when the
\* refresh began lacks or gives another FIM.
ChangedPaths ==
    LET old == localTargets(hist.preDisk).rt.paths
        new == Get(rm.targets).paths
    IN  {p \in DOMAIN new : p \notin DOMAIN old \/ old[p] # new[p]}

UpdateReturnsOk(c) ==
    /\ callerPc[c] = "waiting"
    /\ callerPc'[c] = "returned"
    /\ callerOp[c].kind = "update"
    /\ callerRes'[c].err = "ok"

\* C13: an Update() that succeeds reports latest = true exactly when no
\* path of the new tree is missing from the tree persisted before or has
\* another FIM there.
C13_LatestIffNothingChanged ==
    [][\A c \in Callers : UpdateReturnsOk(c) => (callerRes'[c].latest <=> ChangedPaths = {})]_vars

\* C13 witness: the second Update() of a caller succeeded with latest =
\* false, the watched path being in the tree persisted before with another
\* FIM.
C13_Witness ==
    /\ callerPc[1] = "returned"
    /\ callsMade[1] = 2
    /\ callerOp[1].kind = "update"
    /\ callerRes[1] = [err |-> "ok", latest |-> FALSE]
    /\ hist.completed = {<<1, 1>>, <<1, 2>>}
    /\ watchedTarget \in DOMAIN localTargets(hist.preDisk).rt.paths

\* The call of caller c before the one it is in was an Update() that
\* succeeded.
PreviousUpdateOk(c) ==
    /\ callsMade[c] >= 2
    /\ <<c, callsMade[c] - 1>> \in DOMAIN hist.result
    /\ hist.result[<<c, callsMade[c] - 1>>] = [err |-> "ok", kind |-> "update"]

ShortBody ==
    /\ hist.mirror # <<>>
    /\ Get(hist.mirror).resp.status = "200"
    /\ IsSome(Get(hist.mirror).fim)
    /\ Len(Get(hist.mirror).resp.body) < Get(Get(hist.mirror).fim).length

\* The mirror answered it with the declared number of bytes, which do not
\* have every declared digest.
OtherContent ==
    /\ hist.mirror # <<>>
    /\ Get(hist.mirror).resp.status = "200"
    /\ IsSome(Get(hist.mirror).fim)
    /\ LET fim  == Get(Get(hist.mirror).fim)
           body == Get(hist.mirror).resp.body
       IN  /\ Len(body) = fim.length
           /\ \E a \in DOMAIN fim.hashes : fim.hashes[a] # Hash(a, body)

\* Every digest of the FIM of the last download decodes and is of an
\* algorithm the client has a hasher for.
DigestsUsable ==
    LET fim == Get(Get(hist.mirror).fim)
    IN  \A a \in DOMAIN fim.hashes : a \in SupportedAlgos /\ fim.hashes[a] # InvalidDigest

\* C15 as stated: a download, of Download() or of the auto-updater, that the
\* mirror answers with fewer bytes than FIM.length fails with the length
\* error, and one it answers with that many bytes of other content fails
\* with the hash error.
C15_ShortIsLengthOtherIsHash ==
    /\ ShortBody => Get(hist.mirror).err = "errLengthIncorrect"
    /\ OtherContent => Get(hist.mirror).err = "errHashIncorrect"

\* C15 amended: the same, for a FIM whose digests all decode and are of
\* supported algorithms.
C15_UsableDigestsShortIsLengthOtherIsHash ==
    /\ ShortBody /\ DigestsUsable => Get(hist.mirror).err = "errLengthIncorrect"
    /\ OtherContent /\ DigestsUsable => Get(hist.mirror).err = "errHashIncorrect"

\* C15 witness: the auto-update got an empty body and notified the length
\* error, and then Download() got a body of the declared length and other
\* content and returned the hash error.
C15_Witness ==
    /\ OtherContent
    /\ DigestsUsable
    /\ Get(hist.mirror).by = "download"
    /\ callerPc[1] = "returned"
    /\ callerRes[1].err = "errHashIncorrect"
    /\ notes = <<Note("", "errLengthIncorrect")>>

(***************************************************************************)
(* Properties of the auto-updater.                                         *)
(***************************************************************************)
\* The errors downloadTarget returns.
DownloadErrors ==
    {"errUnknownTarget", "errTransport", "errMirrorStatus", "errInvalidHash",
     "errUnsupportedHash", "errLengthIncorrect", "errHashIncorrect"}

\* The last call of the notifier in the run under way or last run.
LastNote == notes[Len(notes)]

\* C16: when the notifier is called with an error of downloadTarget, that
\* is after the destination file was created, the staging path holds no
\* file for the watched target.
C16_FailedDownloadLeavesNoFile ==
    notes # <<>> /\ LastNote.err \in DownloadErrors => staged = None

\* C16 witness: after a run that staged the file, a later run got a short
\* body from the mirror, notified the error and left no file.
C16_Witness ==
    /\ notes = <<Note("", "errLengthIncorrect")>>
    /\ staged = None
    /\ hist.delivered # {}
    /\ Len(Get(hist.mirror).resp.body) = 1

\* The worker is at the end of the refresh of an auto-update run and takes
\* the rest of autoupdater.update.
AutoRunEnds ==
    /\ wpc = "run"
    /\ op.kind = "auto"
    /\ pc = "notify"
    /\ wpc' = "select"

\* The last download of the auto-updater failed, and the tree the run under
\* way refreshed gives the watched target the FIM it was for.
RetryDue ==
    /\ refreshRes.err = "ok"
    /\ rm.targets # None
    /\ watchedTarget \in DOMAIN Get(rm.targets).paths
    /\ hist.mirror # <<>>
    /\ Get(hist.mirror).by = "auto"
    /\ Get(hist.mirror).err # "ok"
    /\ Get(hist.mirror).fim = Some(Get(rm.targets).paths[watchedTarget])

\* C17: a run whose download fails (the notifier gets an error of staging
\* or of downloadTarget) leaves currentFim as it was, and a later run that
\* finds the watched target under the FIM of the failed download calls
\* downloadAndNotify again.
C17_FailedDownloadIsRetried ==
    [][AutoRunEnds =>
          /\ (Len(notes') = Len(notes) + 1
                /\ notes'[Len(notes')].err \in DownloadErrors \cup {"errIO"})
              => currentFim' = currentFim
          /\ RetryDue => Len(notes') = Len(notes) + 1]_vars

\* C17 witness: a download failed, and the run of a later tick has
\* refreshed and found the watched target under the same FIM, which is not
\* currentFim.
C17_Witness ==
    /\ wpc = "run"
    /\ op.kind = "auto"
    /\ pc = "notify"
    /\ now >= 1
    /\ notes = <<>>
    /\ RetryDue
    /\ ~FimEqual(Get(rm.targets).paths[watchedTarget], currentFim)

\* The run under way refreshed and found the watched target under
\* currentFim, the FIM of a file an earlier run staged and notified.
StagedFimUnchanged ==
    /\ refreshRes.err = "ok"
    /\ rm.targets # None
    /\ watchedTarget \in DOMAIN Get(rm.targets).paths
    /\ Get(rm.targets).paths[watchedTarget] = currentFim
    /\ \E x \in hist.delivered : x.fim = currentFim

\* C18: once a run has staged the watched target and notified its path, a
\* run of a later tick that refreshes and finds the target under the same
\* FIM calls neither downloadAndNotify nor the notifier: the notifier calls,
\* the staged file and currentFim stay as they were.
C18_UnchangedFimIsNotFetchedAgain ==
    [][AutoRunEnds /\ StagedFimUnchanged =>
          /\ notes' = notes
          /\ staged' = staged
          /\ currentFim' = currentFim
          /\ hist'.mirror = hist.mirror]_vars

\* C18 witness: a run staged the file, and the run of a later tick took the
\* same documents from Notary and ended without a call of the notifier.
C18_Witness ==
    /\ wpc = "select"
    /\ now >= 1
    /\ hist.same
    /\ hist.delivered # {}
    /\ staged # None
    /\ notes = <<>>
    /\ watchedTarget \in DOMAIN Get(rm.targets).paths
    /\ Get(rm.targets).paths[watchedTarget] = currentFim

\* The refresh of the auto-update run under way has failed.
AutoRefreshFailed == refreshRes.err # "ok"

\* C19: a run whose refresh fails calls the notifier once, with an empty
\* path and the error of the refresh, and ends: it calls no downloadTarget
\* and leaves the staged file and currentFim as they were.
C19_FailedRefreshNotifiesOnce ==
    [][AutoRunEnds /\ AutoRefreshFailed =>
          /\ notes = <<>>
          /\ notes' = <<[err |-> refreshRes.err, path |-> ""]>>
          /\ currentFim' = currentFim
          /\ staged' = staged
          /\ hist'.mirror = hist.mirror
          /\ hist'.delivered = hist.delivered]_vars

\* C19 witness: after a run that staged the file, the refresh of a later
\* run failed on the save of the repository, and the notifier got the one
\* call with the error.
C19_Witness ==
    /\ wpc = "select"
    /\ notes = <<[err |-> "errSave", path |-> ""]>>
    /\ staged # None
    /\ hist.delivered # {}
    /\ now >= 1

\* loadOnStart is false: NewClient sends nothing on forceAutoUpdate.
NoLoadOnStart == ~forcePending /\ ~hist.forced

\* The run under way refreshed and found the watched target under a FIM
\* that is not currentFim.
NewFimFound ==
    /\ refreshRes.err = "ok"
    /\ rm.targets # None
    /\ watchedTarget \in DOMAIN Get(rm.targets).paths
    /\ ~FimEqual(Get(rm.targets).paths[watchedTarget], currentFim)

\* C20: with loadOnStart false and an autoupdater configured, the worker
\* has begun as many runs as it took ticks, a clock advance offers one tick;
\* before the first tick nothing runs and the notifier is not called; and a
\* run that finds a new FIM calls the notifier once: with the path of the
\* staged file, which then holds the bytes of that FIM, or with an empty
\* path and an error.
C20_OneRunPerTick ==
    /\ [](NoLoadOnStart /\ autoupdate =>
             /\ hist.runs = hist.ticks
             /\ hist.ticks + (IF tickReady THEN 1 ELSE 0) <= now
             /\ hist.ticks = 0 => op.kind # "auto" /\ notes = <<>> /\ staged = None
             /\ Len(notes) <= 1)
    /\ [][NoLoadOnStart /\ AutoRunEnds /\ NewFimFound =>
             /\ notes = <<>>
             /\ Len(notes') = 1
             /\ \/ /\ notes'[1] = [err |-> "ok", path |-> watchedTarget]
                   /\ staged' # None
                   /\ fimVerify(Get(rm.targets).paths[watchedTarget], Get(staged')) = "ok"
                \/ /\ notes'[1].err # "ok"
                   /\ notes'[1].path = ""]_vars

\* C20 witness: loadOnStart being false, the clock advanced once, the
\* worker took the tick, and the one run staged the file and notified its
\* path.
C20_Witness ==
    /\ NoLoadOnStart
    /\ now = 1
    /\ hist.ticks = 1
    /\ hist.runs = 1
    /\ wpc = "select"
    /\ notes = <<[err |-> "ok", path |-> watchedTarget]>>
    /\ staged # None

\* loadOnStart is true: NewClient sends on forceAutoUpdate.
LoadOnStart == forcePending \/ hist.forced

\* C21: with loadOnStart true and an autoupdater configured, the worker
\* begins a run on the signal of NewClient, whatever the ticker does: once
\* the client exists (NewClient is past its send) the runs begun are one
\* more than the ticks taken.  When Stop() has returned, that run and its
\* notifier call are over: nothing runs, and if it was the only run the
\* notifier has had its call.
C21_ForcedRunEndsBeforeStopReturns ==
    LoadOnStart /\ autoupdate =>
        /\ stopPc # "idle" \/ (\E c \in Callers : callerPc[c] # "idle") => ~forcePending
        /\ ~forcePending => hist.runs = hist.ticks + 1
        /\ stopPc = "returned" =>
              /\ hist.runs >= 1
              /\ wpc = "exited"
              /\ active = {}
              /\ hist.runs = 1 => Len(notes) = 1

\* C21 witness: Stop() was the first call on the client and has returned;
\* no tick was taken, and the one run staged the file and notified its path.
C21_Witness ==
    /\ LoadOnStart
    /\ autoupdate
    /\ stopPc = "returned"
    /\ \A c \in Callers : callsMade[c] = 0
    /\ hist.ticks = 0
    /\ hist.runs = 1
    /\ notes = <<[err |-> "ok", path |-> watchedTarget]>>
    /\ staged # None

(***************************************************************************)
(* Properties of the persisted repository.                                 *)
(***************************************************************************)
\* C22: when a refresh has succeeded, every role of the repository it
\* accepted (root, timestamp, snapshot, targets and the delegates of the
\* tree) loads from its role file as the document accepted, and the tree
\* built from the files has the roles and the paths of the tree accepted;
\* and the role files change in
\* no step but the save of a refresh, so that the next refresh loads them.
C22_SavedRolesReloadAsAccepted ==
    /\ [](Refreshed("ok") =>
             /\ \A n \in MemRoles(rm) : localRole(disk, n) = [err |-> "ok", doc |-> savedDoc(rm, n)]
             /\ localTargets(disk).err = "ok"
             /\ localTargets(disk).rt.lookup = Get(rm.targets).lookup
             /\ localTargets(disk).rt.paths = Get(rm.targets).paths)
    /\ [][disk' # disk => InRefresh("save")]_vars

\* C22 witness: the second Update() succeeded on a tree with a delegate
\* and a timestamp of version 2, which the files hold.
C22_Witness ==
    /\ Refreshed("ok")
    /\ callsMade[1] = 2
    /\ "targets/a" \in DOMAIN Get(rm.targets).lookup
    /\ Get(rm.timestamp).version = 2
    /\ disk["targets/a"] = Some(Get(rm.targets).lookup["targets/a"])
    /\ disk[roleTimestamp] = rm.timestamp

(***************************************************************************)
(* Properties of the construction of a client.                             *)
(***************************************************************************)
\* C23: a constructor called with a check frequency below the minimum
\* starts no client and returns an error.
C23_FrequencyBelowMinimumRejected ==
    callerOp[1].checkFrequency < minimumCheckFrequency =>
        /\ wpc = "unstarted"
        /\ callerPc[1] = "returned" => callerRes[1].err # "ok"

\* C24: NewClient goes on past ping() exactly when the health endpoint
\* answered with a 2xx status or with 401.
C24_PingAccepts2xxAnd401 ==
    callerOp[1].kind = "tuf.NewClient" /\ pc # "options" =>
        (callerRes[1].err \in {"errPing", "errPingStatus"}
            <=> callerOp[1].health \notin {"200", "204", "401"})

(***************************************************************************)
(* Properties of the chain of roots.                                       *)
(***************************************************************************)
\* The number of signatures of sigs that verify under a key of keys.
RECURSIVE ValidSignatures(_, _)
ValidSignatures(keys, sigs) ==
    IF sigs = <<>> THEN 0
    ELSE (IF Head(sigs).keyid \in keys /\ Head(sigs).st = "good" THEN 1 ELSE 0)
            + ValidSignatures(keys, Tail(sigs))

\* The loop of refreshRoot takes the root Notary served as the current one.
RootAccepted ==
    /\ InRefresh("rootloop")
    /\ pc' = "rootloop"
    /\ lroot' # lroot

\* C25: a root the loop accepts carries at least as many valid signatures
\* under keys of the root before it as that root's threshold for the root
\* role, and at least as many under its own keys as its own threshold.
C25_NextRootSignedByBothRoots ==
    [][RootAccepted =>
          /\ ValidSignatures(Get(lroot).keys, Get(lroot').sigs)
                >= Get(lroot).roles[roleRoot].threshold
          /\ ValidSignatures(Get(lroot').keys, Get(lroot').sigs)
                >= Get(lroot').roles[roleRoot].threshold]_vars

\* C25 witness: the loop accepted a root with two keys and a threshold of
\* two, signed by both, after a root with the one key k1.
C25_Witness ==
    /\ InRefresh("rootloop")
    /\ Get(lroot).keys = {"k1", "k2"}
    /\ Get(lroot).roles[roleRoot].threshold = 2
    /\ Get(lroot).sigs = <<GoodSig("k1"), GoodSig("k2")>>
    /\ Get(disk[roleRoot]).keys = {"k1"}

\* The version of the root the refresh under way or last run started from.
StartRootVersion == Get(hist.preDisk[roleRoot]).version

\* C26: the loop of refreshRoot ends on the first request it does not accept
\* (the 404 that ends the chain included), so that one version at most was
\* asked for and not accepted, and it asks for versions one after another: a
\* version beyond the first one asked for is asked for only after the
\* version before it was asked for and accepted.
C26_RootsRequestedOneAfterAnother ==
    /\ hist.taken \subseteq hist.asked
    /\ Cardinality(hist.asked \ hist.taken) <= 1
    /\ \A v \in hist.asked : v > StartRootVersion + 1 => (v - 1) \in hist.taken

\* The part of C26 that holds whatever Notary serves.
C26_LoopEndsOnFirstRefusal ==
    /\ hist.taken \subseteq hist.asked
    /\ Cardinality(hist.asked \ hist.taken) <= 1
    /\ \A v \in hist.asked : v = StartRootVersion + 1 \/ \E w \in hist.taken : w < v

\* C27: the loop of refreshRoot accepts a root only when its version is the
\* version of the current root plus one.
C27_NextRootVersionIsPlusOne ==
    [][RootAccepted => Get(lroot').version = Get(lroot).version + 1]_vars

(***************************************************************************)
(* Properties of the keys of the timestamp and of the snapshot.            *)
(***************************************************************************)
\* Document doc carries the threshold of valid signatures under the keys
\* that the root of the refresh assigns to role r.
SignedByRoleKeys(r, doc) ==
    ValidSignatures(Get(rm.root).roles[r].keyids, doc.sigs)
        >= Get(rm.root).roles[r].threshold

\* C28: a refresh accepts a timestamp, and a snapshot, only with the
\* threshold of valid signatures under keys that the current root assigns
\* to that role.
C28_SignedByKeysOfTheRole ==
    [][/\ InRefresh("timestamp") /\ pc' = "snapshot"
            => SignedByRoleKeys(roleTimestamp, Get(rm'.timestamp))
       /\ InRefresh("snapshot") /\ pc' = "targetsstart"
            => SignedByRoleKeys(roleSnapshot, Get(rm'.snapshot))]_vars

(***************************************************************************)
(* Properties of the bytes of a role.                                      *)
(***************************************************************************)
\* The fetch of role kind returned without error.
BytesAccepted(kind) ==
    /\ pc = "none" /\ callerPc[1] = "returned"
    /\ "fim" \in DOMAIN callerOp[1] /\ callerOp[1].kind = kind
    /\ callerRes[1].err = "ok"

\* The bytes read are no more than the declared length and hash to every
\* declared digest.
WithinDeclared ==
    /\ Len(callerDest[1]) <= callerOp[1].fim.length
    /\ \A a \in DOMAIN callerOp[1].fim.hashes :
          Hash(a, callerDest[1]) = callerOp[1].fim.hashes[a]

PersistedAbove(v) ==
    {n \in TargetNames : IsSome(disk[n]) /\ n \in DOMAIN localTargets(disk).rt.lookup
                            /\ Get(disk[n]).version > v}

\* C30: the snapshot step succeeds only when the persisted top-level targets
\* and every persisted delegate have a version no higher than the version
\* of the snapshot Notary served; it fails with the rollback error only
\* when one of them, or the persisted snapshot, has a higher version.
C30_PersistedTargetsNotAboveSnapshot ==
    [][InRefresh("snapshot") =>
          /\ pc' = "targetsstart" =>
                /\ hist'.snapshotSeen = Get(rm'.snapshot).version
                /\ PersistedAbove(hist'.snapshotSeen) = {}
          /\ refreshRes'.err = "errRollbackAttack" =>
                \/ PersistedAbove(hist'.snapshotSeen) # {}
                \/ Get(disk[roleSnapshot]).version > hist'.snapshotSeen]_vars

\* C30 witness: the snapshot step accepted a snapshot of version MaxVersion
\* with the top-level targets persisted at that version.
C30_Witness ==
    /\ InRefresh("targetsstart")
    /\ Get(rm.snapshot).version = MaxVersion
    /\ Get(disk[roleTargets]).version = MaxVersion
    /\ PersistedAbove(MaxVersion - 1) # {}

(***************************************************************************)
(* Properties of the keys of the delegates.                                *)
(***************************************************************************)
\* The names role r of graph g delegates to.
Kids(g, r) ==
    IF r \in DOMAIN g /\ IsSome(g[r])
    THEN {Get(g[r]).delegs[i].name : i \in DOMAIN Get(g[r]).delegs}
    ELSE {}

\* The roles of g reached from the roles of S in at most fuel delegations.
RECURSIVE Reached(_, _, _)
Reached(g, S, fuel) ==
    IF fuel = 0 THEN S
    ELSE Reached(g, S \cup UNION {Kids(g, r) : r \in S}, fuel - 1)

\* The roles on a path of delegations from targets down to a parent of n.
Ancestors(g, n) ==
    {r \in Reached(g, {roleTargets}, Cardinality(TargetNames)) :
        n \in Reached(g, Kids(g, r), Cardinality(TargetNames))}

\* The keys of the targets role of the root and the delegation keys of the
\* roles on a path from targets down to a parent of n.
PathKeys(g, n) ==
    InitRoot.roles[roleTargets].keyids
        \cup UNION {Get(g[r]).dkeys : r \in Ancestors(g, n) \cap DOMAIN g}

\* The build from Notary takes delegate n into the tree.
DelegateAccepted(n) ==
    /\ pc = "treeremote"
    /\ n \in DelegateNames
    /\ n \notin DOMAIN Get(bld).rt.lookup
    /\ n \in DOMAIN Get(bld').rt.lookup

\* C31: a delegate is taken into the tree only with the threshold of valid
\* signatures under keys gathered on a path of delegations from targets
\* down to its parent; keys that only roles off such a path contribute do
\* not count.
C31_DelegateSignedByPathKeys ==
    [][\A n \in DelegateNames :
          DelegateAccepted(n) =>
              ValidSignatures(PathKeys(disk, n), Get(disk[n]).sigs)
                  >= Get(fetcher).roles[n].threshold]_vars

\* The keys and roles the fetcher has gathered.
Accumulator(f) == <<f.keys, f.roles>>

\* C32: the delegation keys and the delegated roles of a role are merged
\* into the accumulator of the fetcher only when that role has passed its
\* checks and is taken into the tree, and every role of the tree has them
\* merged, so that they are there before any of its children is fetched.
C32_KeysMergedAfterChecksBeforeChildren ==
    /\ [][(pc = "treeremote" /\ Accumulator(Get(fetcher')) # Accumulator(Get(fetcher))) =>
             /\ Get(bld').err = "ok"
             /\ BuilderNext(Get(bld)) \notin DOMAIN Get(bld).rt.lookup
             /\ BuilderNext(Get(bld)) \in DOMAIN Get(bld').rt.lookup
             /\ Accumulator(Get(fetcher')) =
                   Accumulator(saveKeysForRoles(Get(fetcher),
                                                Get(bld').rt.lookup[BuilderNext(Get(bld))]))]_vars
    /\ [](pc = "treeremote" =>
             \A n \in DOMAIN Get(bld).rt.lookup :
                /\ Get(bld).rt.lookup[n].dkeys \subseteq Get(fetcher).keys
                /\ Kids(disk, n) \subseteq DOMAIN Get(fetcher).roles)

\* C32 witness: targets/b, signed by k2 alone, is in the tree under its
\* parent targets/a, which carries the key k2.
C32_Witness ==
    /\ pc = "treeremote"
    /\ "targets/b" \in DOMAIN Get(bld).rt.lookup
    /\ Get(bld).rt.lookup["targets/b"].sigs = <<GoodSig("k2")>>
    /\ "targets/b" \in Kids(disk, "targets/a")
    /\ Get(disk["targets/a"]).dkeys = {"k2"}
    /\ Get(disk[roleTargets]).dkeys = {}

(***************************************************************************)
(* Properties of the traversal of the delegations.                         *)
(***************************************************************************)
\* C33: a delegation to a name already visited is skipped and the build
\* goes on with the delegations that remain, at every level: the build from
\* Notary never ends with the error of the visited name.
C33_SeenDelegationIsSkipped ==
    pc = "treeremote" => Get(bld).err # "errTargetSeen"

\* C34: the build from Notary of a tree of maxDelegationCount + 1 roles
\* (51, targets included) ends with the error of too many delegates, and
\* the fetcher never gets as far as asking Notary for the last of them.
C34_TreeOf51RolesFails ==
    (/\ pc = "treeremote"
     /\ Cardinality(DOMAIN disk) = maxDelegationCount + 1
     /\ BuilderDone(Get(bld)))
        => /\ Get(bld).err = "errTooManyDelegates"
           /\ Cardinality(Get(fetcher).seen) <= maxDelegationCount

\* C35: every build of the target tree, from Notary or from the local
\* repository, ends after finitely many fetches, whatever the graph of the
\* delegations: no build is still under way after MaxFetches fetches, which
\* is more than the largest graph has roles.
C35_BuildEndsAfterFinitelyManyFetches ==
    Len(hist.fetched) >= MaxFetches => BuilderDone(Get(bld))

(***************************************************************************)
(* Properties of the precedence of the roles.                              *)
(***************************************************************************)
\* The names role r of graph g delegates to, in the order it lists them.
KidSeq(g, r) ==
    IF r \in DOMAIN g /\ IsSome(g[r])
    THEN [i \in DOMAIN Get(g[r]).delegs |-> Get(g[r]).delegs[i].name]
    ELSE <<>>

\* The roles below the names of seq, each name followed by what is below it,
\* down to fuel levels.
RECURSIVE Preorder(_, _, _)
Preorder(g, seq, fuel) ==
    IF seq = <<>> \/ fuel = 0 THEN <<>>
    ELSE <<Head(seq)>> \o Preorder(g, KidSeq(g, Head(seq)), fuel - 1)
                       \o Preorder(g, Tail(seq), fuel)

\* Graph g is a tree: no role delegates to targets, and every other role is
\* delegated to once.
TreeShaped(g) ==
    /\ \A r \in DOMAIN g : roleTargets \notin Kids(g, r)
    /\ \A n \in DOMAIN g \ {roleTargets} :
          Cardinality({<<r, i>> \in (DOMAIN g) \X (1..(maxDelegationCount + 1)) :
                          i \in DOMAIN KidSeq(g, r) /\ KidSeq(g, r)[i] = n}) = 1

\* The build of the tree has ended without error.
BuildEndedOk ==
    /\ pc \in {"treelocal", "treeremote"}
    /\ Get(bld).stack = <<>>
    /\ Get(bld).err = "ok"

\* C36: the precedence of a tree that was built lists targets first and then
\* every delegation in the order listed, each role followed by all that is
\* below it before its next sibling.
C36_PrecedenceIsPreorder ==
    (BuildEndedOk /\ TreeShaped(disk)) =>
        Get(bld).rt.prec = Preorder(disk, <<roleTargets>>, Cardinality(DOMAIN disk))

\* C36 witness: a tree of two levels is built: d03 and d04, the roles below
\* d01, come before d02, the sibling of d01.
C36_Witness ==
    /\ BuildEndedOk
    /\ Get(bld).rt.prec = <<roleTargets, StarNames[1], StarNames[3], StarNames[4],
                           StarNames[2], StarNames[5]>>

(***************************************************************************)
(* Properties of the limit on the bytes read.                              *)
(***************************************************************************)
\* The fetch of the snapshot or of a target returned, under a FIM of a
\* positive length whose digests decode and are of supported algorithms.
LimitedFetchReturned ==
    /\ pc = "none" /\ callerPc[1] = "returned"
    /\ "fim" \in DOMAIN callerOp[1] /\ callerOp[1].kind \in {"snapshot", "download"}
    /\ callerOp[1].fim.length > 0
    /\ \A a \in DOMAIN callerOp[1].fim.hashes :
          a \in SupportedAlgos /\ callerOp[1].fim.hashes[a] # InvalidDigest

\* The declared digests are those of bytes.
DigestsOf(bytes) ==
    \A a \in DOMAIN callerOp[1].fim.hashes : callerOp[1].fim.hashes[a] = Hash(a, bytes)

ValidSigners(keys, sigs) ==
    {sigs[i].keyid : i \in {j \in DOMAIN sigs : sigs[j].keyid \in keys /\ sigs[j].st = "good"}}

\* C38: signatures of one key ID count once toward the threshold: a root
\* the loop of refreshRoot accepts has valid signatures of as many distinct
\* keys of its own as its threshold for the root role, and of as many
\* distinct keys of the root before it as that root's threshold.
C38_SameKeyCountsOnce ==
    [][RootAccepted =>
          /\ Cardinality(ValidSigners(Get(lroot').keys, Get(lroot').sigs))
                >= Get(lroot').roles[roleRoot].threshold
          /\ Cardinality(ValidSigners(Get(lroot).keys, Get(lroot').sigs))
                >= Get(lroot).roles[roleRoot].threshold]_vars

(***************************************************************************)
(* Properties of the status of the answer of Notary.                       *)
(***************************************************************************)
\* C39: the fetch of a role from Notary returns an error for every status
\* of the answer other than 200, the error of the role not found for 404:
\* an answer other than 200 is never reported as a role fetched.
C39_Non200IsAnError ==
    (/\ pc = "none" /\ callerPc[1] = "returned"
     /\ callerOp[1].kind = "role"
     /\ callerOp[1].status # "200")
        => /\ callerRes[1].err # "ok"
           /\ callerOp[1].status = "404" => callerRes[1].err = "errNotFound"

\* C40: no two saves of the repository use the same backup tag: a save
\* never takes the tag the save before it took.
C40_NoTwoSavesShareATag ==
    [][InRefresh("save") /\ pc' # pc => hist'.lastTag # hist.lastTag]_vars

====
